---- MODULE Spec2Model ----
(***************************************************************************)
(* Chained backfill runners of ai-daily-brief-highlights:                  *)
(*   ingestion     netlify/functions/ingest-episodes-background (latest    *)
(*                 revision, src/unnamed/part_008)                         *)
(*   summarization netlify/functions/summarize-episodes-background.ts      *)
(* The episode store is shared state; every awaited store call of a        *)
(* handler is one step of the run that issues it.                          *)
(***************************************************************************)
EXTENDS Integers, Sequences, FiniteSets, TLC

(* ------------------------------ bounds --------------------------------- *)

\* episode ids; a larger id is a later published_at
NumRecords == 4
\* size of the "most recent" read window; the handlers use .limit(30), the
\* model keeps the window smaller than the store so that a record can fall
\* out of it
WindowLimit == 3
\* external depth-0 triggers (schedule or manual call) per behaviour
MaxTriggers == 1
\* rows of the initial table that are in an unusual state (see Init)
MaxSpecial == 1
\* failed store calls, failed feed reads, lost continuation requests and
\* killed invocations per behaviour (failures of the per-candidate external
\* calls are not counted)
MaxFaults == 1

(* ------------------------- program constants --------------------------- *)

INGEST_MAX_BACKFILL_DEPTH == 10
SUM_MAX_BACKFILL_DEPTH == 15
EPISODES_PER_RUN == 2
MIN_TRANSCRIPT_LENGTH == 2000
RESET_LIMIT == 50
INGEST_ERROR_SLICE == 500
SUM_ERROR_SLICE == 800
SOURCE_CAP == 5
MIN_TAKEAWAYS == 4
MIN_STORIES == 3
\* "__PROCESSING_TRANSCRIPT__".length and "__ERROR__: ".length
PROCESSING_LENGTH == 25
ERROR_PREFIX_LENGTH == 11
CHUNK_CAP == 30
\* the excerpt of the transcript in the prompt; "\n\n[...]\n\n".length
HEAD_LENGTH == 18000
TAIL_THRESHOLD == 22000
TAIL_LENGTH == 4000
SEPARATOR_LENGTH == 9

\* lengths of error messages: one shorter than both slices, one longer
SHORT_MESSAGE == 40
LONG_MESSAGE == 900

\* direct calls of the helper functions: length of a source list, number
\* of distinct urls and titles in it, largest cap
MaxSources == 3
NumUrls == 2
NumTitles == 2
MaxCap == 3
\* bytes of one audio segment (8 MiB in the program)
CHUNK_SIZE == 2

(* ------------------------------ helpers -------------------------------- *)

Min(a, b) == IF a < b THEN a ELSE b

Max(a, b) == IF a > b THEN a ELSE b

CeilDiv(a, b) == (a + b - 1) \div b

Take(s, n) == SubSeq(s, 1, Min(n, Len(s)))

Ids == 1..NumRecords

Chains == {1, 2}

Jobs == {"ingest", "summarize"}

(* --------------------------- transcript values ------------------------- *)
\* A transcript column value is null or a string; a string is kept as the
\* way it begins (the processing sentinel exactly, the "__ERROR__" prefix,
\* anything else) and its length.

NullTranscript == [kind |-> "null", len |-> 0]

PROCESSING == [kind |-> "proc", len |-> PROCESSING_LENGTH]

Text(n) == [kind |-> "text", len |-> n]

\* `__ERROR__: ${msg}` with msg = String(err.message).slice(0, 500)
ErrorTranscript(msgLen) ==
  [kind |-> "err", len |-> ERROR_PREFIX_LENGTH + Min(msgLen, INGEST_ERROR_SLICE)]

StartsWithError(t) == t.kind = "err"

\* the length test with >= in place of >
isRealTranscript_AtLeast(t) ==
  /\ t.kind # "null"
  /\ t.len # 0
  /\ t # PROCESSING
  /\ ~StartsWithError(t)
  /\ t.len >= MIN_TRANSCRIPT_LENGTH

isRealTranscript(t) ==
  /\ t.kind # "null"
  /\ t.len # 0
  /\ t # PROCESSING
  /\ ~StartsWithError(t)
  /\ t.len > MIN_TRANSCRIPT_LENGTH

(* ------------------------ sources and highlights ----------------------- *)
\* A web source is kept as its url (0: empty after trim) and its title.

Source(u, t) == [url |-> u, title |-> t]

NullSources == [isNull |-> TRUE, list |-> <<>>]

SourceList(l) == [isNull |-> FALSE, list |-> l]

isEmptySources(v) == v.isNull \/ Len(v.list) = 0

UrlsOf(l) == {l[k].url : k \in 1..Len(l)}

RECURSIVE DedupeFrom(_, _, _, _)
DedupeFrom(sources, k, out, cap) ==
  IF k > Len(sources) THEN out
  ELSE IF sources[k].url = 0 \/ sources[k].url \in UrlsOf(out)
       THEN DedupeFrom(sources, k + 1, out, cap)
       ELSE IF Len(out) + 1 >= cap
            THEN Append(out, sources[k])
            ELSE DedupeFrom(sources, k + 1, Append(out, sources[k]), cap)

\* the loop without the break at the cap
dedupeSources_NoCap(sources, cap) == DedupeFrom(sources, 1, <<>>, Len(sources) + 1)

\* dedupeSources: first entry of each non-empty trimmed url, at most cap
dedupeSources(sources, cap) == DedupeFrom(sources, 1, <<>>, cap)

\* A highlights column value is null or a JSON object.  A string field is
\* "missing" (absent or not a string), "blank" (empty after trim) or "text";
\* top_takeaways is its item count, -1 when it is not an array.
StrKinds == {"missing", "blank", "text"}

Story(h, w) == [headline |-> h, why_it_matters |-> w]

Highlights(kind, a, b, c, d, n, isArr, st) ==
  [kind |-> kind, one_sentence_summary |-> a, what_changed |-> b,
   why_it_matters_now |-> c, who_should_care |-> d, top_takeaways |-> n,
   stories_is_array |-> isArr, stories |-> st]

NullHighlights ==
  Highlights("null", "missing", "missing", "missing", "missing", -1, FALSE, <<>>)

EmptyObject ==
  Highlights("object", "missing", "missing", "missing", "missing", -1, FALSE, <<>>)

GoodStories == <<Story("text", "text"), Story("text", "text"), Story("text", "text")>>

ValidPayload ==
  Highlights("object", "text", "text", "text", "text", MIN_TAKEAWAYS, TRUE, GoodStories)

ShortTakeawaysPayload ==
  Highlights("object", "text", "text", "text", "text", MIN_TAKEAWAYS - 1, TRUE, GoodStories)

BlankFieldPayload ==
  Highlights("object", "text", "blank", "text", "text", MIN_TAKEAWAYS, TRUE, GoodStories)

KeyCount(v) ==
  Cardinality({f \in {"one_sentence_summary", "what_changed", "why_it_matters_now",
                      "who_should_care"} : v[f] # "missing"})
  + (IF v.top_takeaways # -1 THEN 1 ELSE 0)
  + (IF v.stories_is_array THEN 1 ELSE 0)

\* no object counted as empty
isEmptyObject_Never(v) == FALSE

isEmptyObject(v) == v.kind = "object" /\ KeyCount(v) = 0

missingHighlights(v) == v.kind = "null" \/ isEmptyObject(v)

\* the two length tests left out
validateHighlights_NoCounts(h) ==
  /\ h.kind = "object"
  /\ h.one_sentence_summary = "text"
  /\ h.what_changed = "text"
  /\ h.why_it_matters_now = "text"
  /\ h.who_should_care = "text"
  /\ h.top_takeaways # -1
  /\ h.stories_is_array
  /\ \A k \in 1..Len(h.stories) :
       h.stories[k].headline = "text" /\ h.stories[k].why_it_matters = "text"

\* the loop over the stories left out
validateHighlights_NoStoryCheck(h) ==
  /\ h.kind = "object"
  /\ h.one_sentence_summary = "text"
  /\ h.what_changed = "text"
  /\ h.why_it_matters_now = "text"
  /\ h.who_should_care = "text"
  /\ h.top_takeaways >= MIN_TAKEAWAYS
  /\ h.stories_is_array
  /\ Len(h.stories) >= MIN_STORIES

\* validateHighlights: TRUE when it returns, FALSE when it throws
validateHighlights(h) ==
  /\ h.kind = "object"
  /\ h.one_sentence_summary = "text"
  /\ h.what_changed = "text"
  /\ h.why_it_matters_now = "text"
  /\ h.who_should_care = "text"
  /\ h.top_takeaways >= MIN_TAKEAWAYS
  /\ h.stories_is_array
  /\ Len(h.stories) >= MIN_STORIES
  /\ \A k \in 1..Len(h.stories) :
       h.stories[k].headline = "text" /\ h.stories[k].why_it_matters = "text"

\* highlights_error: null, or the length of the stored message
NoError == -1

\* the message written whole
HighlightsError_Unsliced(msgLen) == msgLen

\* String(inner.message).slice(0, 800)
HighlightsError(msgLen) == Min(msgLen, SUM_ERROR_SLICE)

(* ------------------------------ the store ------------------------------ *)

NoRecord ==
  [exists |-> FALSE, audio |-> FALSE, transcript |-> NullTranscript,
   sources |-> NullSources, highlights |-> NullHighlights,
   highlights_error |-> NoError]

\* a row inserted by the feed upsert: metadata only
NewRow == [NoRecord EXCEPT !.exists = TRUE, !.audio = TRUE]

RECURSIVE NewestFirst(_, _)
NewestFirst(st, k) ==
  IF k = 0 THEN <<>>
  ELSE IF st[k].exists
       THEN <<[id |-> k, rec |-> st[k]]>> \o NewestFirst(st, k - 1)
       ELSE NewestFirst(st, k - 1)

\* .order("published_at", { ascending: false }).limit(...)
Window(st) == Take(NewestFirst(st, NumRecords), WindowLimit)

RowIds(rows) == {rows[k].id : k \in 1..Len(rows)}

\* an update that also writes the error column of the summarization job
UpdateTranscript_AndError(st, ids, t) ==
  [r \in Ids |-> IF r \in ids /\ st[r].exists
                 THEN [st[r] EXCEPT !.transcript = t,
                                    !.highlights_error = HighlightsError(SHORT_MESSAGE)]
                 ELSE st[r]]

\* .update({...}).in("id", ids) / .eq("id", id): absent ids match no row
UpdateTranscript(st, ids, t) ==
  [r \in Ids |-> IF r \in ids /\ st[r].exists
                 THEN [st[r] EXCEPT !.transcript = t] ELSE st[r]]

\* an update in place of the upsert: no row is inserted
Upsert_UpdateOnly(st, feedIds) ==
  [r \in Ids |-> IF r \in feedIds /\ st[r].exists
                 THEN [st[r] EXCEPT !.audio = TRUE] ELSE st[r]]

\* an upsert of whole rows: the other columns are reset to null
Upsert_WholeRow(st, feedIds) ==
  [r \in Ids |-> IF r \in feedIds THEN NewRow ELSE st[r]]

\* .upsert(cleanedRows, { onConflict: "id" }): only the metadata columns
Upsert(st, feedIds) ==
  [r \in Ids |-> IF r \notin feedIds THEN st[r]
                 ELSE IF st[r].exists THEN [st[r] EXCEPT !.audio = TRUE]
                 ELSE NewRow]

(* ------------------------------ state ---------------------------------- *)

VARIABLES
  store,     \* the episodes table: id -> row
  run,       \* per chain: the invocation that is (or was last) executing
  msgs,      \* continuation requests fired and not yet delivered
  env,       \* process.env of the deployment
  enabled,   \* chains an external trigger may start
  scheduled, \* jobs the deployment's triggers call
  triggers,  \* external triggers so far
  call       \* the last direct call of a helper function, with its result

vars == <<store, run, msgs, env, enabled, scheduled, triggers, call>>

\* no helper function called directly
NoCall == [fn |-> "none", args |-> <<>>, done |-> TRUE, result |-> <<>>]

NoCur == [len |-> 0, errLen |-> 0, sources |-> <<>>, payload |-> NullHighlights]

IdleRun ==
  [pc |-> "idle", job |-> "ingest", depth |-> 0, resetStuck |-> FALSE,
   ids |-> {}, windowIds |-> {}, candIds |-> {}, total |-> 0, batch |-> <<>>,
   i |-> 0,
   cur |-> NoCur, processed |-> 0, status |-> 0, remaining |-> 0,
   chainTriggered |-> FALSE,
   \* history of the chain this run belongs to
   fired |-> 0, c0 |-> -1, clean |-> TRUE, faults |-> 0, grew |-> FALSE,
   \* history of this run
   procAtStart |-> {}, errAtStart |-> {}, visited |-> {}, attempted |-> {},
   failed |-> {}, rejected |-> {}, inserted |-> {}, feedOk |-> FALSE,
   \* feed items left out of cleanedRows (until the window is read)
   skipped |-> {}]

\* a fresh invocation; hist carries the chain history
NewRun(job, depth, resetStuck, hist) ==
  [pc |-> "start", job |-> job, depth |-> depth, resetStuck |-> resetStuck,
   fired |-> hist.fired, c0 |-> hist.c0, clean |-> hist.clean,
   faults |-> hist.faults, grew |-> hist.grew] @@ IdleRun

Set(c, over) == [run EXCEPT ![c] = over @@ run[c]]

\* outcomes of a store call, a feed read, a delivery: TRUE is success
Oks(c) == IF run[c].faults < MaxFaults THEN BOOLEAN ELSE {TRUE}

\* the run after a call with outcome ok
Charge(c, ok, r) ==
  IF ok THEN r
  ELSE [r EXCEPT ![c].faults = @ + 1, ![c].clean = FALSE]

Halted(c) == run[c].pc \in {"idle", "done", "failed", "dead"}

MaxDepth(job) ==
  IF job = "ingest" THEN INGEST_MAX_BACKFILL_DEPTH ELSE SUM_MAX_BACKFILL_DEPTH

(* ------------------------ external trigger ----------------------------- *)

\* cron-ingest / cron-summarize or a manual call: no depth parameter, so
\* parseInt("0") = 0; reset_stuck only on a manual ingestion call
Trigger(c) ==
  /\ c \in enabled
  /\ Halted(c)
  /\ \A m \in msgs : m.chain # c
  /\ triggers < MaxTriggers
  /\ \E job \in scheduled, rs \in BOOLEAN :
       /\ (job = "summarize" => ~rs)
       /\ run' = [run EXCEPT ![c] =
                    [procAtStart |->
                       {r \in Ids : store[r].exists /\ store[r].transcript = PROCESSING},
                     errAtStart |->
                       {r \in Ids : store[r].exists /\ StartsWithError(store[r].transcript)}]
                    @@ NewRun(job, 0, rs, [fired |-> 0, c0 |-> -1, clean |-> TRUE,
                                          faults |-> run[c].faults, grew |-> FALSE])]
  /\ triggers' = triggers + 1
  /\ UNCHANGED <<store, msgs, env, enabled, scheduled, call>>

\* the exception logged and the handler going on to the next step
Fail_Swallowed(c) ==
  Set(c, [pc |-> IF run[c].pc = "rss" THEN "fetch" ELSE "failed", status |-> 500,
          clean |-> FALSE])

\* the outer catch: statusCode 500, nothing else happens in this invocation
Fail(c) ==
  Set(c, [pc |-> "failed", status |-> 500, clean |-> FALSE])

\* the reset step in the continuation runs instead of the first run
ResetsAtStart_Continuations(depth) == depth > 0

\* if (depth === 0): the reset step runs in the first run of a chain only
ResetsAtStart(depth) == depth = 0

\* credential checks at the top of both handlers
Start(c) ==
  /\ run[c].pc = "start"
  /\ IF ~env.supabase \/ ~env.openai
     THEN run' = Fail(c)
     ELSE run' = Set(c, [pc |-> IF run[c].job = "summarize" THEN "fetch"
                                ELSE IF ResetsAtStart(run[c].depth) THEN "resetProcSelect"
                                ELSE "rss"])
  /\ UNCHANGED <<store, msgs, env, enabled, scheduled, triggers, call>>

(* ------------------------ ingestion: reset step ------------------------ *)

\* .limit(n) over an unordered select: any n of the matching rows
Limited(S, n) == {T \in SUBSET S : Cardinality(T) = Min(Cardinality(S), n)}

\* error states reset without looking at the flag
ShouldResetErrors_Always(resetStuck) == TRUE

\* if (resetStuck)
ShouldResetErrors(resetStuck) == resetStuck

AfterProcReset(c) ==
  IF ShouldResetErrors(run[c].resetStuck) THEN "resetErrSelect" ELSE "rss"

\* select id where transcript = "__PROCESSING_TRANSCRIPT__" limit 50
ResetProcSelect(c) ==
  /\ run[c].pc = "resetProcSelect"
  /\ \E ok \in Oks(c) :
       \E T \in Limited({r \in Ids : store[r].exists /\ store[r].transcript = PROCESSING},
                        RESET_LIMIT) :
         LET ids == IF ok THEN T ELSE {} IN
         run' = Charge(c, ok, Set(c, [pc |-> IF ids # {} THEN "resetProcUpdate"
                                             ELSE AfterProcReset(c),
                                      ids |-> ids]))
  /\ UNCHANGED <<store, msgs, env, enabled, scheduled, triggers, call>>

\* update transcript = null where id in processingIds (result not checked)
ResetProcUpdate(c) ==
  /\ run[c].pc = "resetProcUpdate"
  /\ \E ok \in Oks(c) :
       /\ store' = IF ok THEN UpdateTranscript(store, run[c].ids, NullTranscript) ELSE store
       /\ run' = Charge(c, ok, Set(c, [pc |-> AfterProcReset(c), ids |-> {}]))
  /\ UNCHANGED <<msgs, env, enabled, scheduled, triggers, call>>

\* select id where transcript like "__ERROR__%" limit 50
ResetErrSelect(c) ==
  /\ run[c].pc = "resetErrSelect"
  /\ \E ok \in Oks(c) :
       \E T \in Limited({r \in Ids : store[r].exists /\ StartsWithError(store[r].transcript)},
                        RESET_LIMIT) :
         LET ids == IF ok THEN T ELSE {} IN
         run' = Charge(c, ok, Set(c, [pc |-> IF ids # {} THEN "resetErrUpdate" ELSE "rss",
                                      ids |-> ids]))
  /\ UNCHANGED <<store, msgs, env, enabled, scheduled, triggers, call>>

\* update transcript = null where id in errorIds (result not checked)
ResetErrUpdate(c) ==
  /\ run[c].pc = "resetErrUpdate"
  /\ \E ok \in Oks(c) :
       /\ store' = IF ok THEN UpdateTranscript(store, run[c].ids, NullTranscript) ELSE store
       /\ run' = Charge(c, ok, Set(c, [pc |-> "rss", ids |-> {}]))
  /\ UNCHANGED <<msgs, env, enabled, scheduled, triggers, call>>

(* ------------------------ ingestion: feed upsert ----------------------- *)

\* The feed lists the newest episodes; feedIds are the items that have a
\* pubDate, an enclosure url and an id (cleanedRows).  A failed fetch, an
\* empty feed and a feed without a valid item all throw.
FeedChoices == {{}} \cup {{r \in Ids : r >= lo} : lo \in Ids}

\* the item after the oldest valid one may lack a pubDate or an enclosure
\* url: it is skipped
SkippedChoices(feedIds) ==
  {{}} \cup {{r} : r \in {q \in Ids : \A f \in feedIds : q = f - 1 \/ q < f - 1}
                          \cap {q \in Ids : \E f \in feedIds : q = f - 1}}

Rss(c) ==
  /\ run[c].pc = "rss"
  /\ \E ok \in Oks(c), feedIds \in FeedChoices :
       IF ~ok \/ feedIds = {}
       THEN /\ run' = Charge(c, ok, Fail(c))
            /\ store' = store
       ELSE \E skipped \in SkippedChoices(feedIds) :
            /\ store' = Upsert(store, feedIds)
            /\ run' = Set(c, [pc |-> "fetch", feedOk |-> TRUE, skipped |-> skipped,
                              inserted |-> {r \in feedIds : ~store[r].exists},
                              grew |-> run[c].grew
                                       \/ (run[c].c0 # -1
                                           /\ \E r \in feedIds : ~store[r].exists)])
  /\ UNCHANGED <<msgs, env, enabled, scheduled, triggers, call>>

(* --------------------------- classification ---------------------------- *)

\* the filter left out: every row of the window is a candidate
IngestCandidate_All(row) == TRUE

\* (rows || []).filter((r) => !isRealTranscript(r.transcript))
IngestCandidate(row) == ~isRealTranscript(row.rec.transcript)

SumCandidate(row) ==
  /\ isRealTranscript(row.rec.transcript)
  /\ (missingHighlights(row.rec.highlights) \/ isEmptySources(row.rec.sources))

Candidates(job, rows) ==
  IF job = "ingest" THEN SelectSeq(rows, IngestCandidate)
  ELSE SelectSeq(rows, SumCandidate)

\* the loop over every candidate: no slice
Batch_All(cands) == cands

\* the slice taken from the end of the list: the oldest candidates
Batch_Oldest(cands) ==
  SubSeq(cands, Max(1, Len(cands) - EPISODES_PER_RUN + 1), Len(cands))

\* candidates.slice(0, EPISODES_PER_RUN)
Batch(cands) == Take(cands, EPISODES_PER_RUN)

\* the ordered read of the recent window, the filter and the slice
Fetch(c) ==
  /\ run[c].pc = "fetch"
  /\ \E ok \in Oks(c) :
       IF ~ok THEN run' = Charge(c, ok, Fail(c))
       ELSE LET rows == Window(store)
                cands == Candidates(run[c].job, rows)
            IN run' = Set(c, [pc |-> "loop", skipped |-> {}, windowIds |-> RowIds(rows),
                              candIds |-> RowIds(cands), total |-> Len(cands),
                              batch |-> Batch(cands), i |-> 1,
                              c0 |-> IF run[c].c0 = -1 THEN Len(cands) ELSE run[c].c0])
  /\ UNCHANGED <<store, msgs, env, enabled, scheduled, triggers, call>>

(* ------------------------ ingestion: batch loop ------------------------ *)

\* lengths of the text transcribeInChunks returns (after trim)
TranscribedLengths == {MIN_TRANSCRIPT_LENGTH, MIN_TRANSCRIPT_LENGTH + 1}

\* length of the message of an error thrown while transcribing
ThrownLengths == {LONG_MESSAGE}

CurRow(c) == run[c].batch[run[c].i]

\* next iteration of the for loop, or the chain controller after the last
NextItem(c, over) ==
  Set(c, over @@ [pc |-> IF run[c].i >= Len(run[c].batch) THEN "chain" ELSE "loop",
                  i |-> run[c].i + 1, cur |-> NoCur])

\* the loop head going on to the transcription when the mark failed
IngestLoop_NoSkip(c) ==
  /\ run[c].pc = "loop"
  /\ run[c].job = "ingest"
  /\ IF run[c].batch = <<>>
     THEN /\ run' = Set(c, [pc |-> "chain"])
          /\ store' = store
     ELSE LET id == CurRow(c).id
              visited == run[c].visited \cup {id}
          IN IF ~CurRow(c).rec.audio
             THEN /\ run' = NextItem(c, [visited |-> visited])
                  /\ store' = store
             ELSE \E markOk \in Oks(c) :
                    /\ store' = IF markOk THEN UpdateTranscript(store, {id}, PROCESSING)
                                ELSE store
                    /\ run' = Charge(c, markOk,
                                     Set(c, [pc |-> "transcribe", visited |-> visited,
                                             attempted |-> run[c].attempted \cup {id}]))
  /\ UNCHANGED <<msgs, env, enabled, scheduled, triggers, call>>

\* loop head: the audio_url check and the "mark processing" write
IngestLoop(c) ==
  /\ run[c].pc = "loop"
  /\ run[c].job = "ingest"
  /\ IF run[c].batch = <<>>
     THEN /\ run' = Set(c, [pc |-> "chain"])
          /\ store' = store
     ELSE LET id == CurRow(c).id
              visited == run[c].visited \cup {id}
          IN IF ~CurRow(c).rec.audio
             THEN /\ run' = NextItem(c, [visited |-> visited])
                  /\ store' = store
             ELSE \E markOk \in Oks(c) :
                    IF markOk
                    THEN /\ store' = UpdateTranscript(store, {id}, PROCESSING)
                         /\ run' = Set(c, [pc |-> "transcribe", visited |-> visited,
                                           attempted |-> run[c].attempted \cup {id}])
                    ELSE /\ store' = store
                         /\ run' = Charge(c, FALSE, NextItem(c, [visited |-> visited]))
  /\ UNCHANGED <<msgs, env, enabled, scheduled, triggers, call>>

\* transcribeInChunks: download, then the chunk calls; returns or throws
Transcribe(c) ==
  /\ run[c].pc = "transcribe"
  /\ \/ \E n \in TranscribedLengths :
          run' = Set(c, [pc |-> "save", cur |-> [NoCur EXCEPT !.len = n]])
     \/ \E m \in ThrownLengths :
          run' = Set(c, [pc |-> "saveError", cur |-> [NoCur EXCEPT !.errLen = m],
                         failed |-> run[c].failed \cup {CurRow(c).id},
                         clean |-> FALSE])
  /\ UNCHANGED <<store, msgs, env, enabled, scheduled, triggers, call>>

\* the platform ends an invocation that exceeds its wall-clock ceiling
Crash(c) ==
  /\ run[c].pc \in {"transcribe", "retrieve", "generate"}
  /\ run[c].faults < MaxFaults
  /\ run' = Charge(c, FALSE, Set(c, [pc |-> "dead"]))
  /\ UNCHANGED <<store, msgs, env, enabled, scheduled, triggers, call>>

\* update({ transcript }); a store error is thrown into the catch
\* ("Update failed"-style message, shorter than the slice)
SaveTranscript(c) ==
  /\ run[c].pc = "save"
  /\ \E ok \in Oks(c) :
       IF ok
       THEN /\ store' = UpdateTranscript(store, {CurRow(c).id}, Text(run[c].cur.len))
            /\ run' = NextItem(c, [cur |-> NoCur])
       ELSE /\ store' = store
            /\ run' = Charge(c, FALSE,
                             Set(c, [pc |-> "saveError",
                                     cur |-> [NoCur EXCEPT !.errLen = SHORT_MESSAGE],
                                     failed |-> run[c].failed \cup {CurRow(c).id}]))
  /\ UNCHANGED <<msgs, env, enabled, scheduled, triggers, call>>

\* a catch that only logs: nothing is written
SaveTranscriptError_LogOnly(c) ==
  /\ run[c].pc = "saveError"
  /\ run[c].job = "ingest"
  /\ store' = store
  /\ run' = NextItem(c, [cur |-> NoCur])
  /\ UNCHANGED <<msgs, env, enabled, scheduled, triggers, call>>

\* catch: update({ transcript: `__ERROR__: ${msg}` }) (result not checked)
SaveTranscriptError(c) ==
  /\ run[c].pc = "saveError"
  /\ run[c].job = "ingest"
  /\ \E ok \in Oks(c) :
       /\ store' = IF ok THEN UpdateTranscript(store, {CurRow(c).id},
                                               ErrorTranscript(run[c].cur.errLen))
                   ELSE store
       /\ run' = Charge(c, ok, NextItem(c, [cur |-> NoCur]))
  /\ UNCHANGED <<msgs, env, enabled, scheduled, triggers, call>>

(* ---------------------- summarization: batch loop ---------------------- *)

\* .update({...}).eq("id", id)
UpdateRow(st, id, over) ==
  [st EXCEPT ![id] = IF @.exists THEN over @@ @ ELSE @]

\* allResults: what the topic searches (and the title fallback) return,
\* flattened; every failure inside retrieval is caught and yields [].  The
\* non-empty outcome repeats a url and has more distinct urls than the cap.
SearchOutcomes ==
  {<<>>, <<Source(1, 1), Source(1, 2), Source(2, 1), Source(3, 1), Source(4, 1),
           Source(5, 1), Source(6, 1)>>}

\* the model call: it throws, or returns text without a JSON object, or
\* returns text whose JSON object is the payload
ModelPayloads == {ValidPayload, ShortTakeawaysPayload, BlankFieldPayload}

needSources(row) == isEmptySources(row.rec.sources)

\* highlights generated for every candidate
needHighlights_Always(row) == TRUE

needHighlights(row) == missingHighlights(row.rec.highlights)

\* processed += 1 and on to the next candidate
ItemDone(c) == NextItem(c, [processed |-> run[c].processed + 1])

\* the exception of one candidate reaching the outer catch
ItemThrows_Escapes(c, msgLen) == Fail(c)

\* catch (inner): the message goes to highlights_error
ItemThrows(c, msgLen) ==
  Set(c, [pc |-> "saveError", cur |-> [NoCur EXCEPT !.errLen = msgLen],
          failed |-> run[c].failed \cup {CurRow(c).id}, clean |-> FALSE])

\* loop head: nothing awaited before retrieval or generation starts
SumLoop(c) ==
  /\ run[c].pc = "loop"
  /\ run[c].job = "summarize"
  /\ IF run[c].batch = <<>>
     THEN run' = Set(c, [pc |-> "chain"])
     ELSE LET over == [visited |-> run[c].visited \cup {CurRow(c).id},
                       attempted |-> run[c].attempted \cup {CurRow(c).id}]
          IN IF needSources(CurRow(c))
             THEN run' = Set(c, over @@ [pc |-> "retrieve"])
             ELSE IF needHighlights(CurRow(c))
                  THEN run' = Set(c, over @@ [pc |-> "generate"])
                  ELSE run' = NextItem(c, over @@ [processed |-> run[c].processed + 1])
  /\ UNCHANGED <<store, msgs, env, enabled, scheduled, triggers, call>>

\* extractSearchTopics, the topic searches, the fallback search, dedupe
Retrieve(c) ==
  /\ run[c].pc = "retrieve"
  /\ \E results \in SearchOutcomes :
       /\ (~env.tavily => results = <<>>)
       /\ run' = Set(c, [pc |-> "saveSources",
                         cur |-> [NoCur EXCEPT
                                    !.sources = dedupeSources(results, SOURCE_CAP)]])
  /\ UNCHANGED <<store, msgs, env, enabled, scheduled, triggers, call>>

\* update({ sources }); a store error is thrown
SaveSources(c) ==
  /\ run[c].pc = "saveSources"
  /\ \E ok \in Oks(c) :
       IF ok
       THEN /\ store' = UpdateRow(store, CurRow(c).id,
                                  [sources |-> SourceList(run[c].cur.sources)])
            /\ run' = IF needHighlights(CurRow(c))
                      THEN Set(c, [pc |-> "generate"])
                      ELSE ItemDone(c)
       ELSE /\ store' = store
            /\ run' = Charge(c, FALSE, ItemThrows(c, SHORT_MESSAGE))
  /\ UNCHANGED <<msgs, env, enabled, scheduled, triggers, call>>

\* chat.completions.create, safeJsonParse, validateHighlights
Generate(c) ==
  /\ run[c].pc = "generate"
  /\ \/ \E m \in ThrownLengths : run' = ItemThrows(c, m)
     \/ \E p \in ModelPayloads :
          run' = IF validateHighlights(p)
                 THEN Set(c, [pc |-> "saveHighlights",
                              cur |-> [run[c].cur EXCEPT !.payload = p]])
                 ELSE [ItemThrows(c, SHORT_MESSAGE) EXCEPT
                         ![c].cur.payload = p,
                         ![c].rejected = @ \cup {CurRow(c).id}]
  /\ UNCHANGED <<store, msgs, env, enabled, scheduled, triggers, call>>

\* update({ highlights, highlights_error: null }); a store error is thrown
SaveHighlights(c) ==
  /\ run[c].pc = "saveHighlights"
  /\ \E ok \in Oks(c) :
       IF ok
       THEN /\ store' = UpdateRow(store, CurRow(c).id,
                                  [highlights |-> run[c].cur.payload,
                                   highlights_error |-> NoError])
            /\ run' = ItemDone(c)
       ELSE /\ store' = store
            /\ run' = Charge(c, FALSE, ItemThrows(c, SHORT_MESSAGE))
  /\ UNCHANGED <<msgs, env, enabled, scheduled, triggers, call>>

\* catch (inner): update({ highlights_error: msg }) (result not checked)
SaveHighlightsError(c) ==
  /\ run[c].pc = "saveError"
  /\ run[c].job = "summarize"
  /\ \E ok \in Oks(c) :
       /\ store' = IF ok THEN UpdateRow(store, CurRow(c).id,
                                        [highlights_error |->
                                           HighlightsError(run[c].cur.errLen)])
                   ELSE store
       /\ run' = Charge(c, ok, NextItem(c, [cur |-> NoCur]))
  /\ UNCHANGED <<msgs, env, enabled, scheduled, triggers, call>>

(* --------------------------- chain controller -------------------------- *)

\* candidates.length - toProcess.length
Remaining(total, batchLen) == total - batchLen

\* the depth test with <= in place of <
ShouldChain_DepthInclusive(remaining, depth, maxDepth) ==
  remaining > 0 /\ depth <= maxDepth

\* the remaining test dropped
ShouldChain_AnyRemaining(remaining, depth, maxDepth) == depth < maxDepth

\* if (remainingCandidates > 0 && depth < MAX_BACKFILL_DEPTH)
ShouldChain(remaining, depth, maxDepth) == remaining > 0 /\ depth < maxDepth

NextDepth(depth) == depth + 1

\* transcribed_this_run (ingestion) / processed (summarization)
Processed(c) ==
  IF run[c].job = "ingest" THEN Len(run[c].batch) ELSE run[c].processed

Chain(c) ==
  /\ run[c].pc = "chain"
  /\ LET remaining == Remaining(run[c].total, Len(run[c].batch))
         fire == ShouldChain(remaining, run[c].depth, MaxDepth(run[c].job)) /\ env.base
     IN /\ msgs' = IF fire
                   THEN msgs \cup {[chain |-> c, job |-> run[c].job,
                                    depth |-> NextDepth(run[c].depth)]}
                   ELSE msgs
        /\ run' = Set(c, [pc |-> "done", status |-> 200, remaining |-> remaining,
                          processed |-> Processed(c), chainTriggered |-> fire,
                          fired |-> run[c].fired + (IF fire THEN 1 ELSE 0),
                          clean |-> run[c].clean /\ (remaining > 0 => env.base)])
  /\ UNCHANGED <<store, env, enabled, scheduled, triggers, call>>

\* the continuation request reaches the platform: a new invocation with the
\* depth of the query string and no reset_stuck parameter
Deliver(m) ==
  /\ m \in msgs
  /\ run[m.chain].pc = "done"
  /\ msgs' = msgs \ {m}
  /\ run' = [run EXCEPT ![m.chain] = NewRun(m.job, m.depth, FALSE, run[m.chain])]
  /\ UNCHANGED <<store, env, enabled, scheduled, triggers, call>>

\* the rejection of the request awaited and thrown into the outer catch
Drop_Rethrown(m) ==
  /\ m \in msgs
  /\ run[m.chain].pc = "done"
  /\ run[m.chain].faults < MaxFaults
  /\ msgs' = msgs \ {m}
  /\ run' = Charge(m.chain, FALSE,
                   [run EXCEPT ![m.chain].pc = "failed", ![m.chain].status = 500])
  /\ UNCHANGED <<store, env, enabled, scheduled, triggers, call>>

\* fetch(nextUrl) rejects: logged by the .catch, the chain ends
Drop(m) ==
  /\ m \in msgs
  /\ run[m.chain].pc = "done"
  /\ run[m.chain].faults < MaxFaults
  /\ msgs' = msgs \ {m}
  /\ run' = Charge(m.chain, FALSE, run)
  /\ UNCHANGED <<store, env, enabled, scheduled, triggers, call>>

(* --------------------------- specification ----------------------------- *)

EnvAll == [supabase |-> TRUE, openai |-> TRUE, tavily |-> TRUE, base |-> TRUE]

\* every credential present, or exactly one of the four settings missing
EnvChoices ==
  {EnvAll} \cup {[EnvAll EXCEPT ![k] = FALSE] : k \in {"supabase", "openai", "tavily", "base"}}

Row(audio, t, s, h, e) ==
  [exists |-> TRUE, audio |-> audio, transcript |-> t, sources |-> s,
   highlights |-> h, highlights_error |-> e]

RealText == Text(MIN_TRANSCRIPT_LENGTH + 1)

SomeSources == SourceList(<<Source(1, 1), Source(2, 1)>>)

\* The usual rows of the table: a placeholder the feed upsert inserted and
\* a fully processed episode (ingestion), an episode waiting for
\* summarization and a fully processed one (summarization).
Placeholder == Row(TRUE, NullTranscript, NullSources, NullHighlights, NoError)

Complete == Row(TRUE, RealText, SomeSources, ValidPayload, NoError)

Transcribed == Row(TRUE, RealText, NullSources, NullHighlights, NoError)

\* Unusual rows ingestion can find: not yet in the table, inserted without
\* audio_url (the debug insert), left in the processing or the error state
\* by an earlier run, or holding a text at the length threshold
IngestSpecial ==
  { NoRecord,
    Row(FALSE, NullTranscript, NullSources, NullHighlights, NoError),
    Row(TRUE, PROCESSING, NullSources, NullHighlights, NoError),
    Row(TRUE, ErrorTranscript(LONG_MESSAGE), NullSources, NullHighlights, NoError),
    Row(TRUE, Text(MIN_TRANSCRIPT_LENGTH), NullSources, NullHighlights, NoError) }

\* Unusual rows summarization can find: no real transcript, a failed
\* earlier attempt, one of the two fields done
SumSpecial ==
  { Row(TRUE, ErrorTranscript(LONG_MESSAGE), NullSources, NullHighlights, NoError),
    Row(TRUE, RealText, SomeSources, EmptyObject, HighlightsError(SHORT_MESSAGE)),
    Row(TRUE, RealText, SourceList(<<>>), ValidPayload, NoError) }

\* tables with at most MaxSpecial unusual rows
Tables(usual, special) ==
  {t \in [Ids -> usual \cup special] :
     Cardinality({r \in Ids : t[r] \in special}) <= MaxSpecial}

Init ==
  /\ \/ /\ scheduled = {"ingest"}
        /\ store \in Tables({Placeholder}, IngestSpecial \cup {Complete})
        /\ env \in {e \in EnvChoices : e.tavily}
     \/ /\ scheduled = {"summarize"}
        /\ store \in Tables({Transcribed}, SumSpecial \cup {Complete})
        /\ env \in EnvChoices
  /\ run = [c \in Chains |-> IdleRun]
  /\ msgs = {}
  /\ enabled = {1}
  /\ triggers = 0
  /\ call = NoCall

Step(c) ==
  \/ Start(c)
  \/ ResetProcSelect(c)
  \/ ResetProcUpdate(c)
  \/ ResetErrSelect(c)
  \/ ResetErrUpdate(c)
  \/ Rss(c)
  \/ Fetch(c)
  \/ IngestLoop(c)
  \/ Transcribe(c)
  \/ SaveTranscript(c)
  \/ SaveTranscriptError(c)
  \/ SumLoop(c)
  \/ Retrieve(c)
  \/ SaveSources(c)
  \/ Generate(c)
  \/ SaveHighlights(c)
  \/ SaveHighlightsError(c)
  \/ Chain(c)
  \/ Crash(c)

Dispatch == \E m \in msgs : Deliver(m) \/ Drop(m)

RunStep == \E c \in Chains : Step(c)

Next == (\E c \in Chains : Trigger(c)) \/ RunStep \/ Dispatch

Spec == Init /\ [][Next]_vars

(* ---------------- two ingestion chains at the same time ---------------- *)
\* A manually fired run has just started when the scheduled trigger may
\* come: both chains work on the same table.  Store calls and the feed read
\* succeed and the site URL is not configured, so each chain is one run.

RaceRun == [IdleRun EXCEPT !.faults = MaxFaults]

RaceInit ==
  /\ scheduled = {"ingest"}
  /\ store \in Tables({Placeholder}, {NoRecord, Complete})
  /\ env = [EnvAll EXCEPT !.base = FALSE]
  /\ run = [c \in Chains |->
              IF c = 1 THEN RaceRun
              ELSE NewRun("ingest", 0, FALSE, RaceRun)]
  /\ msgs = {}
  /\ enabled = {1}
  /\ triggers = 0
  /\ call = NoCall

RaceStep(c) ==
  \/ Start(c)
  \/ ResetProcSelect(c)
  \/ ResetProcUpdate(c)
  \/ ResetErrSelect(c)
  \/ ResetErrUpdate(c)
  \/ Rss(c)
  \/ Fetch(c)
  \/ IngestLoop(c)
  \/ Transcribe(c)
  \/ SaveTranscript(c)
  \/ SaveTranscriptError(c)
  \/ Chain(c)

RaceNext == \E c \in Chains : Trigger(c) \/ RaceStep(c)

RaceSpec == RaceInit /\ [][RaceNext]_vars

(* ------------------ ingestion, then summarization --------------------- *)
\* The summarization trigger is scheduled ten minutes after the ingestion
\* trigger.  Chain 1 is the ingestion run, chain 2 the summarization run
\* that follows it.  Store calls and the feed read succeed and the site URL
\* is not configured, so each job is one run.

\* cron-summarize calls the summarization job once ingestion has returned
FollowUp ==
  /\ run[1].job = "ingest"
  /\ run[1].pc \in {"done", "failed"}
  /\ run[2].pc = "idle"
  /\ run' = [run EXCEPT ![2] = NewRun("summarize", 0, FALSE, RaceRun)]
  /\ UNCHANGED <<store, msgs, env, enabled, scheduled, triggers, call>>

PipeInit ==
  /\ scheduled = {"ingest"}
  /\ store \in Tables({Placeholder}, {NoRecord, Complete})
  /\ env = [EnvAll EXCEPT !.base = FALSE]
  /\ run = [c \in Chains |-> RaceRun]
  /\ msgs = {}
  /\ enabled = {1}
  /\ triggers = 0
  /\ call = NoCall

PipeStep(c) ==
  \/ Start(c)
  \/ ResetProcSelect(c)
  \/ ResetErrSelect(c)
  \/ Rss(c)
  \/ Fetch(c)
  \/ IngestLoop(c)
  \/ Transcribe(c)
  \/ SaveTranscript(c)
  \/ SaveTranscriptError(c)
  \/ SumLoop(c)
  \/ Retrieve(c)
  \/ SaveSources(c)
  \/ Generate(c)
  \/ SaveHighlights(c)
  \/ SaveHighlightsError(c)
  \/ Chain(c)

PipeNext == (\E c \in Chains : Trigger(c) \/ PipeStep(c)) \/ FollowUp

PipeSpec == PipeInit /\ [][PipeNext]_vars

(* ------------- summarize-now: the single-episode entry point ---------- *)
\* The first revision of the manual endpoint: one episode per call, no
\* sources, no chain.

\* a manual call of the endpoint
TriggerNow(c) ==
  /\ c \in enabled
  /\ Halted(c)
  /\ triggers < MaxTriggers
  /\ run' = [run EXCEPT ![c] =
               [pc |-> "nowStart", job |-> "summarize-now", faults |-> run[c].faults]
               @@ IdleRun]
  /\ triggers' = triggers + 1
  /\ UNCHANGED <<store, msgs, env, enabled, scheduled, call>>

\* the two credential checks: return 500
NowStart(c) ==
  /\ run[c].pc = "nowStart"
  /\ run' = IF ~env.openai \/ ~env.supabase THEN Fail(c) ELSE Set(c, [pc |-> "nowFetch"])
  /\ UNCHANGED <<store, msgs, env, enabled, scheduled, triggers, call>>

\* r.highlights == null && isRealTranscript(r.transcript)
NowCandidate(row) ==
  row.rec.highlights.kind = "null" /\ isRealTranscript(row.rec.transcript)

\* the ordered read, the filter, candidates[0]; 200 when there is none
NowFetch(c) ==
  /\ run[c].pc = "nowFetch"
  /\ \E ok \in Oks(c) :
       IF ~ok THEN run' = Charge(c, ok, Fail(c))
       ELSE LET rows == Window(store)
                cands == SelectSeq(rows, NowCandidate)
            IN run' = IF cands = <<>>
                      THEN Set(c, [pc |-> "done", status |-> 200,
                                   windowIds |-> RowIds(rows)])
                      ELSE Set(c, [pc |-> "nowModel", windowIds |-> RowIds(rows),
                                   candIds |-> RowIds(cands), total |-> Len(cands),
                                   batch |-> Take(cands, 1), i |-> 1])
  /\ UNCHANGED <<store, msgs, env, enabled, scheduled, triggers, call>>

\* what the prompt of this revision asks for: one_sentence_summary,
\* top_takeaways (5 items), stories (3 items)
FirstSchemaPayload ==
  Highlights("object", "text", "missing", "missing", "missing", MIN_TAKEAWAYS + 1, TRUE,
             GoodStories)

NowPayloads == {FirstSchemaPayload, ValidPayload, ShortTakeawaysPayload, EmptyObject}

\* chat.completions.create and JSON.parse: a throw reaches the outer catch
NowModel(c) ==
  /\ run[c].pc = "nowModel"
  /\ \/ run' = Fail(c)
     \/ \E p \in NowPayloads :
          run' = Set(c, [pc |-> "nowUpdate", cur |-> [NoCur EXCEPT !.payload = p],
                         attempted |-> {CurRow(c).id}])
  /\ UNCHANGED <<store, msgs, env, enabled, scheduled, triggers, call>>

\* update({ highlights }): the parsed value as it is
NowUpdate(c) ==
  /\ run[c].pc = "nowUpdate"
  /\ \E ok \in Oks(c) :
       IF ok
       THEN /\ store' = UpdateRow(store, CurRow(c).id, [highlights |-> run[c].cur.payload])
            /\ run' = Set(c, [pc |-> "done", status |-> 200, processed |-> 1,
                              cur |-> NoCur])
       ELSE /\ store' = store
            /\ run' = Charge(c, FALSE, Fail(c))
  /\ UNCHANGED <<msgs, env, enabled, scheduled, triggers, call>>

NowInit ==
  /\ scheduled = {"summarize-now"}
  /\ store \in Tables({Transcribed}, SumSpecial \cup {Complete})
  /\ env \in EnvChoices
  /\ run = [c \in Chains |-> IdleRun]
  /\ msgs = {}
  /\ enabled = {1}
  /\ triggers = 0
  /\ call = NoCall

NowStep(c) == NowStart(c) \/ NowFetch(c) \/ NowModel(c) \/ NowUpdate(c)

NowNext == \E c \in Chains : TriggerNow(c) \/ NowStep(c)

NowSpec == NowInit /\ [][NowNext]_vars

(* ------------- ingestion, the single-episode revision ----------------- *)
\* The earlier revision of the background ingestion job: the newest feed
\* item only, no window, no chain.

\* a call of the endpoint (guid = null)
TriggerOne(c) ==
  /\ c \in enabled
  /\ Halted(c)
  /\ triggers < MaxTriggers
  /\ run' = [run EXCEPT ![c] =
               [pc |-> "oneRss", job |-> "ingest-one", faults |-> run[c].faults]
               @@ IdleRun]
  /\ triggers' = triggers + 1
  /\ UNCHANGED <<store, msgs, env, enabled, scheduled, call>>

\* the credential tests and the feed read; list[0] is the newest item and
\* guid is assigned before its pubDate and enclosure are tested.  batch
\* holds the item with its record as it was before the run.
OneRss(c) ==
  /\ run[c].pc = "oneRss"
  /\ IF ~env.supabase \/ ~env.openai
     THEN run' = Fail(c)
     ELSE \E ok \in Oks(c), newest \in Ids \cup {0}, valid \in BOOLEAN :
            IF ~ok \/ newest = 0
            THEN run' = Charge(c, ok, Fail(c))
            ELSE LET item == [id |-> newest, rec |-> store[newest]]
                 IN run' = IF valid
                           THEN Set(c, [pc |-> "oneUpsert", batch |-> <<item>>, i |-> 1])
                           ELSE Set(c, [pc |-> "oneCatch", batch |-> <<item>>, i |-> 1,
                                        cur |-> [NoCur EXCEPT !.errLen = SHORT_MESSAGE]])
  /\ UNCHANGED <<store, msgs, env, enabled, scheduled, triggers, call>>

\* upsert of the metadata together with transcript: "__PROCESSING_TRANSCRIPT__"
OneUpsert(c) ==
  /\ run[c].pc = "oneUpsert"
  /\ \E ok \in Oks(c) :
       IF ok
       THEN /\ store' = [store EXCEPT ![CurRow(c).id] =
                           [exists |-> TRUE, audio |-> TRUE, transcript |-> PROCESSING]
                           @@ @]
            /\ run' = Set(c, [pc |-> "oneCheck"])
       ELSE /\ store' = store
            /\ run' = Charge(c, FALSE,
                             Set(c, [pc |-> "oneCatch",
                                     cur |-> [NoCur EXCEPT !.errLen = SHORT_MESSAGE]]))
  /\ UNCHANGED <<msgs, env, enabled, scheduled, triggers, call>>

\* hasRealTranscript of this revision: no test of the error prefix
hasRealTranscript(t) ==
  /\ t.kind # "null"
  /\ t.len # 0
  /\ t # PROCESSING
  /\ t.len > MIN_TRANSCRIPT_LENGTH

\* the read of the row and the decision to transcribe
OneCheck(c) ==
  /\ run[c].pc = "oneCheck"
  /\ \E ok \in Oks(c) :
       run' = IF ~ok
              THEN Charge(c, FALSE,
                          Set(c, [pc |-> "oneCatch",
                                  cur |-> [NoCur EXCEPT !.errLen = SHORT_MESSAGE]]))
              ELSE IF hasRealTranscript(store[CurRow(c).id].transcript)
                   THEN Set(c, [pc |-> "done", status |-> 200])
                   ELSE Set(c, [pc |-> "oneTranscribe"])
  /\ UNCHANGED <<store, msgs, env, enabled, scheduled, triggers, call>>

\* transcribeInChunks: returns or throws
OneTranscribe(c) ==
  /\ run[c].pc = "oneTranscribe"
  /\ \/ \E n \in TranscribedLengths :
          run' = Set(c, [pc |-> "oneSave", cur |-> [NoCur EXCEPT !.len = n],
                         attempted |-> {CurRow(c).id}])
     \/ \E m \in ThrownLengths :
          run' = Set(c, [pc |-> "oneCatch", cur |-> [NoCur EXCEPT !.errLen = m],
                         attempted |-> {CurRow(c).id}])
  /\ UNCHANGED <<store, msgs, env, enabled, scheduled, triggers, call>>

\* update of the metadata and the transcript
OneSave(c) ==
  /\ run[c].pc = "oneSave"
  /\ \E ok \in Oks(c) :
       IF ok
       THEN /\ store' = UpdateTranscript(store, {CurRow(c).id}, Text(run[c].cur.len))
            /\ run' = Set(c, [pc |-> "done", status |-> 200, cur |-> NoCur])
       ELSE /\ store' = store
            /\ run' = Charge(c, FALSE,
                             Set(c, [pc |-> "oneCatch",
                                     cur |-> [NoCur EXCEPT !.errLen = SHORT_MESSAGE]]))
  /\ UNCHANGED <<msgs, env, enabled, scheduled, triggers, call>>

\* catch with guid set: the error sentinel, best effort, then status 500
OneCatch(c) ==
  /\ run[c].pc = "oneCatch"
  /\ \E ok \in Oks(c) :
       /\ store' = IF ok THEN UpdateTranscript(store, {CurRow(c).id},
                                               ErrorTranscript(run[c].cur.errLen))
                   ELSE store
       /\ run' = Charge(c, ok, Set(c, [pc |-> "failed", status |-> 500,
                                       clean |-> FALSE, cur |-> NoCur,
                                       failed |-> {CurRow(c).id}]))
  /\ UNCHANGED <<msgs, env, enabled, scheduled, triggers, call>>

OneInit ==
  /\ scheduled = {"ingest-one"}
  /\ store \in Tables({Placeholder}, IngestSpecial \cup {Complete})
  /\ env \in {e \in EnvChoices : e.tavily /\ e.base}
  /\ run = [c \in Chains |-> IdleRun]
  /\ msgs = {}
  /\ enabled = {1}
  /\ triggers = 0
  /\ call = NoCall

OneNext ==
  \E c \in Chains :
    \/ TriggerOne(c)
    \/ OneRss(c)
    \/ OneUpsert(c)
    \/ OneCheck(c)
    \/ OneTranscribe(c)
    \/ OneSave(c)
    \/ OneCatch(c)

OneSpec == OneInit /\ [][OneNext]_vars

(* ------------------- helper functions called directly ------------------ *)

\* sequences over S of length lo..hi
SeqsOf(S, lo, hi) == UNION {[1..n -> S] : n \in lo..hi}

\* WebSource lists: url 0 is a url that is empty after trim
SourceInputs ==
  SeqsOf({Source(u, t) : u \in 0..NumUrls, t \in 1..NumTitles}, 0, MaxSources)

\* parsed model output: null, an object without keys, and objects whose
\* narrative fields, takeaways and stories vary around what is required
StoryInputs ==
  SeqsOf({Story("text", "text"), Story("blank", "text"), Story("text", "missing")},
         MIN_STORIES - 1, MIN_STORIES)

PayloadInputs ==
  {NullHighlights, EmptyObject}
  \cup {Highlights("object", a, b, c, d, n, TRUE, st) :
          a \in StrKinds, b \in StrKinds, c \in StrKinds, d \in StrKinds,
          n \in {MIN_TAKEAWAYS - 1, MIN_TAKEAWAYS}, st \in StoryInputs}
  \cup {Highlights("object", "text", "text", "text", "text", n, FALSE, <<>>) :
          n \in {-1, MIN_TAKEAWAYS}}

\* debug-episodes: the status strings of one row of the select
transcriptStatus(t) ==
  IF t.kind = "null" \/ t.len = 0 THEN [status |-> "missing", n |-> 0]
  ELSE IF t = PROCESSING THEN [status |-> "processing", n |-> 0]
  ELSE IF StartsWithError(t) THEN [status |-> "error", n |-> Min(t.len, 100)]
  ELSE [status |-> "ok", n |-> t.len]

highlightsStatus(h) ==
  IF h.kind = "null" \/ isEmptyObject(h) THEN "missing" ELSE "ok"

sourcesStatus(v) ==
  IF isEmptySources(v) THEN [status |-> "missing", n |-> 0]
  ELSE [status |-> "ok", n |-> Len(v.list)]

debugEpisode(r) ==
  [transcript |-> transcriptStatus(r.transcript),
   highlights |-> highlightsStatus(r.highlights),
   sources |-> sourcesStatus(r.sources)]

\* rows the select can return: transcripts absent, empty, in progress,
\* failed, and stored texts at and above the length threshold
DebugInputs ==
  {Row(TRUE, t, v, h, NoError) :
     t \in {NullTranscript, Text(0), PROCESSING, ErrorTranscript(SHORT_MESSAGE),
            Text(MIN_TRANSCRIPT_LENGTH), Text(MIN_TRANSCRIPT_LENGTH + 1)},
     v \in {NullSources, SourceList(<<>>), SomeSources},
     h \in {NullHighlights, EmptyObject, ValidPayload}}

Call(fn, args) == [fn |-> fn, args |-> args, done |-> FALSE, result |-> <<>>]

\* transcribeInChunks before the download: offset = 0, part = 1, no text;
\* calls counts the transcription requests sent
ChunkStart ==
  [downloaded |-> FALSE, offset |-> 0, part |-> 1, segments |-> 0, calls |-> 0,
   thrown |-> FALSE]

\* topics.slice(0, 3).map(tavilySearch(topic, 2)): every search is started
\* before any is awaited
SearchesStart == [pending |-> {1, 2, 3}, settled |-> <<>>, sources |-> <<>>]

\* what one topic search returns: nothing, or two results that share a url
\* with the results of another topic
TopicResults ==
  {<<>>, <<Source(1, 1), Source(2, 1)>>, <<Source(2, 2), Source(3, 1)>>}

\* the depth parameter of a request: absent, not a number, or a number
\* below, at and above the bounds of the two jobs
DepthParams ==
  {[given |-> FALSE, numeric |-> FALSE, n |-> 0],
   [given |-> TRUE, numeric |-> FALSE, n |-> 0]}
  \cup {[given |-> TRUE, numeric |-> TRUE, n |-> n] :
          n \in {-2, -1, 0, 1}
                \cup {m + k : m \in {INGEST_MAX_BACKFILL_DEPTH, SUM_MAX_BACKFILL_DEPTH},
                               k \in {-1, 0, 1}}}

\* transcript lengths around the two thresholds of the excerpt
ExcerptInputs ==
  {0, 1, MIN_TRANSCRIPT_LENGTH + 1, TAIL_THRESHOLD + TAIL_LENGTH}
  \cup {m + k : m \in {HEAD_LENGTH, TAIL_THRESHOLD}, k \in {-1, 0, 1}}

\* audio sizes up to two segments beyond the cap
AudioSizes == 0..(CHUNK_SIZE * (CHUNK_CAP + 2))

FnInit ==
  /\ call \in {Call("dedupeSources", <<l, cap>>) : l \in SourceInputs, cap \in 0..MaxCap}
            \cup {Call("validateHighlights", <<p>>) : p \in PayloadInputs}
            \cup {Call("debugEpisode", <<r>>) : r \in DebugInputs}
            \cup {[Call("transcribeInChunks", <<bytes>>) EXCEPT !.result = ChunkStart] :
                    bytes \in AudioSizes}
            \cup {[Call("chain", <<p, job>>) EXCEPT
                     !.result = [parsed |-> FALSE, depth |-> [nan |-> FALSE, n |-> 0],
                                 fired |-> 0]] :
                    p \in DepthParams, job \in Jobs}
            \cup {Call("transcriptForModel", <<len>>) : len \in ExcerptInputs}
            \cup {[Call("topicSearches", <<res>>) EXCEPT !.result = SearchesStart] :
                    res \in [1..3 -> TopicResults]}
  /\ store = [r \in Ids |-> NoRecord]
  /\ run = [c \in Chains |-> IdleRun]
  /\ msgs = {}
  /\ env = EnvAll
  /\ enabled = {}
  /\ scheduled = {}
  /\ triggers = 0

ApplyDedupe ==
  /\ call.fn = "dedupeSources"
  /\ ~call.done
  /\ call' = [call EXCEPT !.done = TRUE,
                          !.result = dedupeSources(call.args[1], call.args[2])]
  /\ UNCHANGED <<store, run, msgs, env, enabled, scheduled, triggers>>

ApplyValidate ==
  /\ call.fn = "validateHighlights"
  /\ ~call.done
  /\ call' = [call EXCEPT !.done = TRUE, !.result = validateHighlights(call.args[1])]
  /\ UNCHANGED <<store, run, msgs, env, enabled, scheduled, triggers>>

\* the map over the rows of the select; the handler makes no store write
ApplyDebug ==
  /\ call.fn = "debugEpisode"
  /\ ~call.done
  /\ call' = [call EXCEPT !.done = TRUE, !.result = debugEpisode(call.args[1])]
  /\ UNCHANGED <<store, run, msgs, env, enabled, scheduled, triggers>>

\* downloadAudioAsArrayBuffer: the buffer, or a throw; an empty buffer
\* fails the loop test at once
DownloadAudio ==
  /\ call.fn = "transcribeInChunks"
  /\ ~call.done
  /\ ~call.result.downloaded
  /\ \E ok \in BOOLEAN :
       call' = IF ok
               THEN [call EXCEPT !.result.downloaded = TRUE,
                                 !.done = ~(0 < call.args[1])]
               ELSE [call EXCEPT !.result.thrown = TRUE, !.done = TRUE]
  /\ UNCHANGED <<store, run, msgs, env, enabled, scheduled, triggers>>

\* the guardrail test with >= in place of >
ChunkCapReached_AtLeast(part) == part >= CHUNK_CAP

\* if (part > 30) break
ChunkCapReached(part) == part > CHUNK_CAP

\* one iteration of the while loop: the request for one segment is awaited;
\* a failed response or one without text throws
TranscribeChunk ==
  /\ call.fn = "transcribeInChunks"
  /\ ~call.done
  /\ call.result.downloaded
  /\ call.result.offset < call.args[1]
  /\ \E ok \in BOOLEAN :
       LET offset == call.result.offset + CHUNK_SIZE
           part == call.result.part + 1
       IN call' = IF ok
                  THEN [call EXCEPT !.result.offset = offset,
                                    !.result.part = part,
                                    !.result.segments = @ + 1,
                                    !.result.calls = @ + 1,
                                    !.done = ChunkCapReached(part)
                                             \/ ~(offset < call.args[1])]
                  ELSE [call EXCEPT !.result.offset = offset,
                                    !.result.calls = @ + 1,
                                    !.result.thrown = TRUE,
                                    !.done = TRUE]
  /\ UNCHANGED <<store, run, msgs, env, enabled, scheduled, triggers>>

\* the results in the order in which the searches settled
MergeOrder_Settled(settled) == settled

\* Promise.all resolves to the results in the order of the promises
MergeOrder(settled) == <<1, 2, 3>>

\* results.flat() over the topics taken in the given order
RECURSIVE Flat(_, _)
Flat(results, order) ==
  IF order = <<>> THEN <<>>
  ELSE results[Head(order)] \o Flat(results, Tail(order))

\* one of the topic searches settles (a failed one with [])
SearchSettles ==
  /\ call.fn = "topicSearches"
  /\ ~call.done
  /\ \E t \in call.result.pending :
       call' = [call EXCEPT !.result.pending = @ \ {t},
                            !.result.settled = Append(@, t)]
  /\ UNCHANGED <<store, run, msgs, env, enabled, scheduled, triggers>>

\* await Promise.all(...), flat, dedupeSources(allResults, 5)
MergeSearches ==
  /\ call.fn = "topicSearches"
  /\ ~call.done
  /\ call.result.pending = {}
  /\ call' = [call EXCEPT
                !.done = TRUE,
                !.result.sources =
                   dedupeSources(Flat(call.args[1], MergeOrder(call.result.settled)),
                                 SOURCE_CAP)]
  /\ UNCHANGED <<store, run, msgs, env, enabled, scheduled, triggers>>

\* parseInt(event.queryStringParameters?.depth || "0", 10): an absent
\* parameter gives 0, a non-numeric one NaN, a signed number itself
parseDepth(p) ==
  IF ~p.given THEN [nan |-> FALSE, n |-> 0]
  ELSE IF ~p.numeric THEN [nan |-> TRUE, n |-> 0]
  ELSE [nan |-> FALSE, n |-> p.n]

\* the handler reads the depth of the request
ReadDepth ==
  /\ call.fn = "chain"
  /\ ~call.done
  /\ ~call.result.parsed
  /\ call' = [call EXCEPT !.result.parsed = TRUE,
                          !.result.depth = parseDepth(call.args[1])]
  /\ UNCHANGED <<store, run, msgs, env, enabled, scheduled, triggers>>

\* the chain controller of a run whose backlog does not shrink (every
\* comparison with NaN is false), and the continuation run it starts
ContinueChain ==
  /\ call.fn = "chain"
  /\ ~call.done
  /\ call.result.parsed
  /\ call' = IF /\ ~call.result.depth.nan
                /\ ShouldChain(1, call.result.depth.n, MaxDepth(call.args[2]))
             THEN [call EXCEPT !.result.depth.n = NextDepth(@),
                               !.result.fired = @ + 1]
             ELSE [call EXCEPT !.done = TRUE]
  /\ UNCHANGED <<store, run, msgs, env, enabled, scheduled, triggers>>

\* the tail appended to every transcript longer than the head
transcriptForModel_TailAlways(len) ==
  LET tail == IF len > HEAD_LENGTH THEN Min(len, TAIL_LENGTH) ELSE 0
  IN [head |-> Min(len, HEAD_LENGTH), tail |-> tail,
      length |-> Min(len, HEAD_LENGTH)
                 + (IF tail > 0 THEN SEPARATOR_LENGTH + tail ELSE 0)]

\* head = slice(0, 18000); tail = length > 22000 ? slice(-4000) : "";
\* tail ? `${head}\n\n[...]\n\n${tail}` : head.  The excerpt is given by the
\* number of leading and of trailing characters it takes, and its length.
transcriptForModel(len) ==
  LET tail == IF len > TAIL_THRESHOLD THEN Min(len, TAIL_LENGTH) ELSE 0
  IN [head |-> Min(len, HEAD_LENGTH), tail |-> tail,
      length |-> Min(len, HEAD_LENGTH)
                 + (IF tail > 0 THEN SEPARATOR_LENGTH + tail ELSE 0)]

ApplyExcerpt ==
  /\ call.fn = "transcriptForModel"
  /\ ~call.done
  /\ call' = [call EXCEPT !.done = TRUE, !.result = transcriptForModel(call.args[1])]
  /\ UNCHANGED <<store, run, msgs, env, enabled, scheduled, triggers>>

FnNext ==
  \/ ApplyExcerpt
  \/ ReadDepth
  \/ ContinueChain
  \/ ApplyDedupe
  \/ ApplyValidate
  \/ ApplyDebug
  \/ DownloadAudio
  \/ TranscribeChunk
  \/ SearchSettles
  \/ MergeSearches

FnSpec == FnInit /\ [][FnNext]_vars

(* ------------------------------ properties ----------------------------- *)

\* the chain of c has ended: its last run returned (or was killed) and no
\* continuation request of it is in flight
ChainEnded(c) ==
  /\ run[c].pc \in {"done", "failed", "dead"}
  /\ \A m \in msgs : m.chain # c

\* continuations ceil(C/B) - 1 of a backlog of C candidates
Continuations(C) == Max(CeilDiv(C, EPISODES_PER_RUN) - 1, 0)

BatchIds(c) == RowIds(run[c].batch)

BatchPcs ==
  {"loop", "transcribe", "save", "saveError", "retrieve", "saveSources",
   "generate", "saveHighlights"}

ResetPcs == {"resetProcSelect", "resetProcUpdate", "resetErrSelect", "resetErrUpdate"}

\* Work an invocation has left, as a number that every step of the
\* invocation decreases.
ItemRank(pc) ==
  CASE pc = "loop" -> 7
    [] pc \in {"retrieve"} -> 6
    [] pc \in {"saveSources", "transcribe"} -> 5
    [] pc \in {"generate", "save"} -> 4
    [] pc = "saveHighlights" -> 3
    [] OTHER -> 2

RunRank(c) ==
  CASE run[c].pc \in {"idle", "done", "failed", "dead"} -> 0
    [] run[c].pc = "chain" -> 3
    [] run[c].pc \in BatchPcs ->
         4 + 8 * (Len(run[c].batch) + 1 - run[c].i) + ItemRank(run[c].pc)
    [] run[c].pc = "fetch" -> 40
    [] run[c].pc = "rss" -> 41
    [] run[c].pc = "resetErrUpdate" -> 42
    [] run[c].pc = "resetErrSelect" -> 43
    [] run[c].pc = "resetProcUpdate" -> 44
    [] run[c].pc = "resetProcSelect" -> 45
    [] OTHER -> 46

\* Work the chains have left: the depth budget not yet used, the work of the
\* running invocation, the continuation requests in flight, and the external
\* triggers still to come.
ChainRank(c) == 100 * (MaxDepth(run[c].job) - run[c].depth) + RunRank(c)

RECURSIVE SumRank(_)
SumRank(S) ==
  IF S = {} THEN 0
  ELSE LET c == CHOOSE x \in S : TRUE IN ChainRank(c) + SumRank(S \ {c})

Rank == 10000 * (MaxTriggers - triggers) + SumRank(Chains) + Cardinality(msgs)

\* C1: a chain started at depth 0 fires at most MAX_DEPTH continuations (10
\* for ingestion, 15 for summarization), each continuation request carries
\* the depth of the run that fired it plus one, a run at depth >= MAX_DEPTH
\* fires none, and the chain always terminates: every step, whatever fails,
\* strictly decreases the work left, which is never negative.
C1_DepthBounded ==
  /\ [](\A c \in Chains :
          /\ run[c].fired <= MaxDepth(run[c].job)
          /\ run[c].depth <= MaxDepth(run[c].job)
          /\ (run[c].chainTriggered => run[c].depth < MaxDepth(run[c].job))
          /\ \A m \in msgs :
               m.chain = c => /\ m.depth = run[c].depth + 1
                              /\ m.job = run[c].job
                              /\ run[c].depth < MaxDepth(run[c].job))
  /\ [](Rank >= 0)
  /\ [][Rank' < Rank]_vars

\* C1 witness: a summarization chain that used its whole depth budget
C1_Witness ==
  \E c \in Chains :
    /\ run[c].job = "summarize"
    /\ run[c].pc = "done"
    /\ run[c].depth = SUM_MAX_BACKFILL_DEPTH
    /\ run[c].fired = SUM_MAX_BACKFILL_DEPTH
    /\ run[c].remaining > 0
    /\ ~run[c].chainTriggered

\* C2 as stated: a run that reaches the chain controller fires a
\* continuation iff remaining > 0 and depth < MAX_DEPTH.
C2_Original ==
  \A c \in Chains :
    run[c].pc = "done" =>
      (run[c].chainTriggered <=>
         (run[c].remaining > 0 /\ run[c].depth < MaxDepth(run[c].job)))

\* C2 amended: a run that reaches the chain controller fires a continuation
\* of the same job iff remaining > 0, depth < MAX_DEPTH and the site URL is
\* configured; with remaining > 0 and depth >= MAX_DEPTH it halts reporting
\* remaining > 0; with remaining = 0 it halts and fires nothing.  Only the
\* chain controller puts a continuation request in flight.
C2_ChainDecision ==
  /\ [](\A c \in Chains :
          run[c].pc = "done" =>
            /\ run[c].status = 200
            /\ (run[c].chainTriggered <=>
                  (run[c].remaining > 0 /\ run[c].depth < MaxDepth(run[c].job)
                   /\ env.base))
            /\ (run[c].remaining > 0 /\ run[c].depth >= MaxDepth(run[c].job)
                  => ~run[c].chainTriggered)
            /\ (run[c].remaining = 0 => ~run[c].chainTriggered))
  /\ [][\A c \in Chains :
          (\E m \in msgs' \ msgs : m.chain = c)
            <=> (run[c].pc = "chain" /\ run'[c].pc = "done"
                 /\ run'[c].chainTriggered)]_vars

\* C2 witness: a continuation run that fires the next continuation
C2_Witness ==
  \E c \in Chains :
    /\ run[c].pc = "done"
    /\ run[c].depth > 0
    /\ run[c].chainTriggered
    /\ \E m \in msgs : m.chain = c /\ m.depth = run[c].depth + 1

C4_Original ==
  \A c \in Chains :
    run[c].pc = "done" => run[c].remaining = run[c].total - run[c].processed

\* C5 as stated: when every external call and store write succeeded, every
\* continuation was delivered and ceil(C/B) - 1 <= MAX_DEPTH, no record of
\* the window needs the job's work when the chain has ended.
C5_Original ==
  \A c \in Chains :
    (/\ ChainEnded(c)
     /\ run[c].pc = "done"
     /\ run[c].c0 >= 0
     /\ run[c].clean
     /\ run[c].faults = 0
     /\ ~run[c].grew
     /\ env.base
     /\ Continuations(run[c].c0) <= MaxDepth(run[c].job))
    => Candidates(run[c].job, Window(store)) = <<>>

\* C6: a failing step of one candidate never makes the run return a
\* non-success status; the run that returns has visited every candidate of
\* its batch, returns status 200 and has taken the chain controller's
\* decision.
C6_FailureIsolation ==
  /\ [][\A c \in Chains :
          run[c].pc \in BatchPcs => run'[c].pc \in BatchPcs \cup {"chain", "dead"}]_vars
  /\ [][\A c \in Chains :
          run[c].pc \in BatchPcs /\ run[c].failed # {} /\ run'[c].pc = "chain"
            => run'[c].visited = BatchIds(c)]_vars
  /\ [](\A c \in Chains :
          run[c].pc \in {"chain", "done"} => run[c].visited = BatchIds(c))
  /\ [][\A c \in Chains :
          run[c].pc = "chain" => run'[c].pc \in {"chain", "done"}]_vars
  /\ [](\A c \in Chains : run[c].pc = "done" => run[c].status = 200)

\* C6 witness: the first candidate of a batch of two failed, the second was
\* still processed and the run returned 200
C6_Witness ==
  \E c \in Chains :
    /\ run[c].pc = "done"
    /\ run[c].status = 200
    /\ Len(run[c].batch) = 2
    /\ run[c].batch[1].id \in run[c].failed
    /\ run[c].batch[2].id \in run[c].attempted
    /\ run[c].batch[2].id \notin run[c].failed

\* C7 as stated: every record whose transcript is the processing sentinel
\* when a depth-0 ingestion run starts is reset to absent by that run, is in
\* that run's candidate set, and is re-transcribed in that run when it is in
\* the batch.  Stated for runs in which no store call or feed read failed.
C7_Original ==
  \A c \in Chains :
    (run[c].job = "ingest" /\ run[c].depth = 0 /\ run[c].faults = 0) =>
      /\ (run[c].pc \in {"resetErrSelect", "resetErrUpdate", "rss", "fetch"} =>
            \A r \in run[c].procAtStart : store[r].transcript = NullTranscript)
      /\ (run[c].pc \in BatchPcs \cup {"chain", "done"} =>
            run[c].procAtStart \subseteq run[c].candIds)
      /\ (run[c].pc \in {"chain", "done"} =>
            run[c].procAtStart \cap BatchIds(c) \subseteq run[c].attempted)

\* C7 amended: when no store call or feed read of the run fails, every
\* record whose transcript is the processing sentinel when a depth-0
\* ingestion run starts is reset to absent by that run; it is in that run's
\* candidate set when it is among the most recently published records the
\* classifier reads; and it is re-transcribed in that run when it is in the
\* batch.
C7_CrashRecovery ==
  \A c \in Chains :
    (run[c].job = "ingest" /\ run[c].depth = 0 /\ run[c].faults = 0) =>
      /\ (run[c].pc \in {"resetErrSelect", "resetErrUpdate", "rss", "fetch"} =>
            \A r \in run[c].procAtStart : store[r].transcript = NullTranscript)
      /\ (run[c].pc \in BatchPcs \cup {"chain", "done"} =>
            run[c].procAtStart \cap run[c].windowIds \subseteq run[c].candIds)
      /\ (run[c].pc \in {"chain", "done"} =>
            run[c].procAtStart \cap BatchIds(c) \subseteq run[c].attempted)

\* C7 witness: a record found in the processing state was reset, selected
\* and transcribed again by the same depth-0 run
C7_Witness ==
  \E c \in Chains :
    /\ run[c].job = "ingest" /\ run[c].depth = 0 /\ run[c].faults = 0
    /\ run[c].pc = "done"
    /\ \E r \in run[c].procAtStart :
         /\ r \in run[c].candIds
         /\ r \in BatchIds(c)
         /\ r \in run[c].attempted
         /\ isRealTranscript(store[r].transcript)

\* C8: only the reset step of a depth-0 ingestion run called with
\* reset_stuck=true changes an error-sentinel transcript to absent; a reset
\* step without the flag leaves every error-sentinel transcript as it is,
\* and a run at depth > 0 has no reset step.
C8_ErrorResetGuarded ==
  /\ [](\A c \in Chains :
          /\ (run[c].pc \in ResetPcs => run[c].job = "ingest" /\ run[c].depth = 0)
          /\ (run[c].pc \in {"resetErrSelect", "resetErrUpdate"} => run[c].resetStuck))
  /\ [][\A c \in Chains : \A r \in Ids :
          (/\ run[c].pc \in ResetPcs
           /\ StartsWithError(store[r].transcript)
           /\ store'[r].transcript # store[r].transcript)
          => /\ run[c].resetStuck
             /\ run[c].depth = 0
             /\ run[c].pc = "resetErrUpdate"
             /\ store'[r].transcript = NullTranscript]_vars

\* C8 witness: a reset step with the flag has cleared the error-sentinel
\* transcripts it found
C8_Witness ==
  \E c \in Chains :
    /\ run[c].pc = "rss"
    /\ run[c].resetStuck
    /\ run[c].depth = 0
    /\ run[c].errAtStart # {}
    /\ \A r \in run[c].errAtStart : store[r].transcript = NullTranscript

\* C9 as stated: no step of an ingestion run invoked without the reset flag
\* changes the transcript of a record that is in the error-sentinel state.
C9_Original ==
  [][\A r \in Ids :
       (StartsWithError(store[r].transcript)
        /\ store'[r].transcript # store[r].transcript)
       => \E c \in Chains : run[c].job = "ingest" /\ run[c].resetStuck]_vars

\* what the specification calls a record that needs transcription
NeedsTranscription(t) ==
  \/ t.kind = "null"
  \/ t = [kind |-> "proc", len |-> PROCESSING_LENGTH]
  \/ t.kind = "err"
  \/ t.len <= 2000

\* C10: a record the ingestion classifier reads is a transcription candidate
\* iff its transcript is absent, is the processing sentinel, starts with the
\* error-sentinel prefix, or has length <= 2000.
C10_IngestClassifier ==
  [][\A c \in Chains :
       (run[c].pc = "fetch" /\ run'[c].pc = "loop" /\ run[c].job = "ingest")
       => /\ run'[c].windowIds = RowIds(Window(store))
          /\ run'[c].candIds \subseteq run'[c].windowIds
          /\ \A r \in run'[c].windowIds :
               r \in run'[c].candIds <=> NeedsTranscription(store[r].transcript)]_vars

\* C10 witness: the classifier has read a window holding a text of exactly
\* 2000 characters, which it selected, and a longer text, which it did not
C10_Witness ==
  \E c \in Chains :
    /\ run[c].job = "ingest"
    /\ run[c].pc = "loop"
    /\ run[c].visited = {}
    /\ \E r \in run[c].candIds : store[r].transcript = Text(2000)
    /\ \E r \in run[c].windowIds \ run[c].candIds : store[r].transcript = Text(2001)

\* a present transcript that is no sentinel and is longer than the threshold
HasRealTranscript(rec) ==
  rec.transcript.kind = "text" /\ rec.transcript.len > MIN_TRANSCRIPT_LENGTH

\* highlights absent, or an object without keys
HighlightsMissing(rec) ==
  \/ rec.highlights.kind = "null"
  \/ rec.highlights.kind = "object" /\ KeyCount(rec.highlights) = 0

\* sources absent, or a list of length zero
SourcesMissing(rec) == rec.sources.isNull \/ Len(rec.sources.list) = 0

\* C11: the summarization classifier selects, of the records it reads,
\* exactly those that have a real transcript and whose highlights or sources
\* are missing, where missing is absent or present but empty; every record
\* of a batch has a real transcript.
C11_SummarizeClassifier ==
  /\ [][\A c \in Chains :
          (run[c].job = "summarize" /\ run[c].pc = "fetch" /\ run'[c].pc = "loop")
            => run'[c].candIds =
                 {r \in RowIds(Window(store)) :
                    /\ HasRealTranscript(store[r])
                    /\ (HighlightsMissing(store[r]) \/ SourcesMissing(store[r]))}]_vars
  /\ [](\A c \in Chains :
          run[c].job = "summarize" =>
            \A k \in 1..Len(run[c].batch) : HasRealTranscript(run[c].batch[k].rec))

\* C11 witness: a record whose highlights are an object without keys and
\* whose sources are stored was selected as a candidate
C11_Witness ==
  \E c \in Chains :
    /\ run[c].job = "summarize"
    /\ run[c].pc = "loop"
    /\ \E r \in run[c].candIds :
         /\ store[r].highlights = EmptyObject
         /\ ~SourcesMissing(store[r])

\* C12: a record that has non-empty highlights and non-empty sources is left
\* unchanged in every field by every step of the summarization job, and no
\* search call and no model call is made for it.
C12_Idempotent ==
  /\ [][\A r \in Ids :
          (/\ scheduled = {"summarize"}
           /\ store[r].exists
           /\ ~HighlightsMissing(store[r])
           /\ ~SourcesMissing(store[r]))
            => store'[r] = store[r]]_vars
  /\ [](\A c \in Chains :
          (run[c].job = "summarize" /\ run[c].pc \in {"retrieve", "generate"})
            => (HighlightsMissing(store[CurRow(c).id])
                \/ SourcesMissing(store[CurRow(c).id])))

\* C12 witness: the second run of a chain returned without touching a
\* record of its window that has both fields
C12_Witness ==
  \E c \in Chains :
    /\ run[c].job = "summarize"
    /\ run[c].depth >= 1
    /\ run[c].pc = "done"
    /\ run[c].attempted # {}
    /\ \E r \in run[c].windowIds :
         /\ ~HighlightsMissing(store[r])
         /\ ~SourcesMissing(store[r])
         /\ r \notin run[c].candIds
         /\ r \notin run[c].attempted

\* position of the first entry of l with url u (0 when there is none)
FirstWithUrl(l, u) ==
  IF \E k \in 1..Len(l) : l[k].url = u
  THEN CHOOSE k \in 1..Len(l) : l[k].url = u /\ \A j \in 1..(k - 1) : l[j].url # u
  ELSE 0

Acceptable(p) ==
  /\ p.kind = "object"
  /\ \A f \in {"one_sentence_summary", "what_changed", "why_it_matters_now",
                "who_should_care"} : p[f] = "text"
  /\ p.top_takeaways >= 4
  /\ p.stories_is_array
  /\ Len(p.stories) >= 3
  /\ \A k \in 1..Len(p.stories) :
       p.stories[k].headline = "text" /\ p.stories[k].why_it_matters = "text"

\* C15: validateHighlights returns the payload exactly when the four
\* narrative fields are non-empty after trimming, top_takeaways is a list of
\* at least 4 items, stories is a list of at least 3 items and every story
\* has a non-empty headline and a non-empty why_it_matters; it throws for
\* every other payload.
C15_ValidateContract ==
  (call.fn = "validateHighlights" /\ call.done) =>
    (call.result <=> Acceptable(call.args[1]))

\* C15 witness: a payload with exactly 4 takeaways and 3 stories was accepted
C15_Witness ==
  /\ call.fn = "validateHighlights"
  /\ call.done
  /\ call.result = TRUE
  /\ call.args[1].top_takeaways = 4
  /\ Len(call.args[1].stories) = 3

\* a payload that lacks a narrative field or has too short a list
Deficient(p) ==
  \/ \E f \in {"one_sentence_summary", "what_changed", "why_it_matters_now",
                "who_should_care"} : p[f] # "text"
  \/ p.top_takeaways < 4
  \/ ~p.stories_is_array
  \/ Len(p.stories) < 3

\* C14: a generated payload that lacks a required narrative field or has a
\* takeaways or stories list shorter than the minimum never reaches the
\* write of highlights; the rejection changes no record, and the write that
\* follows it leaves the record's highlights as they were and, when the
\* store accepts it, sets the record's highlights_error to the message.
C14_ValidationRejection ==
  /\ [](\A c \in Chains :
          (run[c].job = "summarize" /\ run[c].pc = "saveHighlights")
            => ~Deficient(run[c].cur.payload))
  /\ [][\A c \in Chains :
          (run[c].job = "summarize" /\ run[c].pc = "generate"
           /\ run'[c].pc = "saveError")
            => store' = store]_vars
  /\ [][\A c \in Chains :
          (/\ run[c].job = "summarize"
           /\ run[c].pc = "saveError"
           /\ CurRow(c).id \in run[c].rejected
           /\ run'[c].pc # "saveError")
            => LET id == CurRow(c).id
               IN /\ Deficient(run[c].cur.payload)
                  /\ store'[id].highlights = store[id].highlights
                  /\ store'[id].highlights = CurRow(c).rec.highlights
                  /\ (run'[c].faults = run[c].faults =>
                        /\ store'[id].highlights_error = run[c].cur.errLen
                        /\ store'[id].highlights_error # NoError)]_vars

\* C14 witness: a run returned after the payload of one record was rejected;
\* the record's highlights are as the run read them and its highlights_error
\* is set
C14_Witness ==
  \E c \in Chains :
    /\ run[c].job = "summarize"
    /\ run[c].pc = "done"
    /\ run[c].faults = 0
    /\ \E k \in 1..Len(run[c].batch) :
         LET id == run[c].batch[k].id
         IN /\ id \in run[c].rejected
            /\ store[id].highlights = run[c].batch[k].rec.highlights
            /\ run[c].batch[k].rec.highlights_error = NoError
            /\ store[id].highlights_error = SHORT_MESSAGE

\* C16 as stated: every value a summarization entry point writes to a
\* record's highlights satisfies the validation contract.
C16_Original ==
  [][\A r \in Ids :
       store'[r].highlights # store[r].highlights => Acceptable(store'[r].highlights)]_vars

\* C17 as stated: when the summarization batch completes a candidate
\* without failure (processed is incremented for it), the record's
\* highlights_error is null, whichever of the two fields was outstanding.
C17_Original ==
  [][\A c \in Chains :
       (/\ run[c].job = "summarize"
        /\ run[c].pc \in BatchPcs
        /\ run'[c].processed = run[c].processed + 1)
         => store'[CurRow(c).id].highlights_error = NoError]_vars

\* C18 as stated: when two chains of the same job interleave, a real
\* transcript once stored is never replaced by the processing sentinel, an
\* error sentinel or absent, and validated highlights once stored are never
\* lost.
C18_Original ==
  [][\A r \in Ids :
       /\ (HasRealTranscript(store[r]) => HasRealTranscript(store'[r]))
       /\ (Acceptable(store[r].highlights) => Acceptable(store'[r].highlights))]_vars

\* a credential the job of chain c requires is not configured
CredentialMissing(c) ==
  \/ ~env.supabase
  \/ ~env.openai
  \/ run[c].job = "summarize" /\ ~env.tavily

\* C19 as stated: when a credential the job requires is missing (store
\* key, model key, web-search key), the invocation returns a non-success
\* status, makes no external call and no store write for any candidate,
\* and never returns success.
C19_Original ==
  \A c \in Chains :
    (run[c].pc # "idle" /\ CredentialMissing(c)) =>
      /\ run[c].pc \notin {"transcribe", "save", "retrieve", "saveSources", "generate",
                           "saveHighlights", "saveError", "done"}
      /\ run[c].status # 200
      /\ (run[c].pc = "failed" => run[c].status = 500)

\* C20 as stated: for a candidate that has highlights and lacks sources the
\* batch writes sources only and never generates or overwrites highlights;
\* for a candidate that lacks both, sources are stored before generation
\* starts, and when generation then fails the stored sources are such that
\* the next run makes no search call for the record.
C20_Original ==
  /\ [][\A c \in Chains :
          (run[c].job = "summarize" /\ run[c].pc \in BatchPcs
           /\ ~needHighlights(CurRow(c)))
            => /\ run'[c].pc \notin {"generate", "saveHighlights"}
               /\ store'[CurRow(c).id].highlights = store[CurRow(c).id].highlights]_vars
  /\ [](\A c \in Chains :
          (run[c].job = "summarize" /\ run[c].pc = "generate"
           /\ needSources(CurRow(c)))
            => store[CurRow(c).id].sources = SourceList(run[c].cur.sources))
  /\ [][\A c \in Chains :
          (run[c].job = "summarize" /\ run[c].pc = "generate"
           /\ run'[c].pc = "saveError" /\ needSources(CurRow(c)))
            => ~SourcesMissing(store'[CurRow(c).id])]_vars

\* the ingestion run of chain c returned and every call it made succeeded
\* with a text longer than the threshold
IngestSucceeded(c) ==
  /\ run[c].job = "ingest"
  /\ run[c].pc = "done"
  /\ run[c].failed = {}
  /\ \A r \in run[c].attempted : HasRealTranscript(store[r])

\* the summarization run of chain c returned and no candidate of it failed
SummarizeSucceeded(c) ==
  /\ run[c].job = "summarize"
  /\ run[c].pc = "done"
  /\ run[c].failed = {}

\* a stored source list without repeated url and within the cap
SourcesWellFormed(rec) ==
  /\ ~rec.sources.isNull
  /\ Len(rec.sources.list) <= SOURCE_CAP
  /\ \A i, j \in 1..Len(rec.sources.list) :
       rec.sources.list[i].url = rec.sources.list[j].url => i = j

IngestColumns(rec) == <<rec.exists, rec.audio, rec.transcript>>

SummaryColumns(rec) == <<rec.sources, rec.highlights, rec.highlights_error>>

\* C22: a step of an ingestion run leaves sources, highlights and
\* highlights_error of every record as they were, and a step of a
\* summarization run leaves the transcript and the metadata of every record
\* as they were, on every path, the error paths included.
C22_FieldOwnership ==
  [][\A c \in Chains : run'[c] # run[c] =>
       /\ run[c].job = "ingest" =>
            \A r \in Ids : SummaryColumns(store'[r]) = SummaryColumns(store[r])
       /\ run[c].job = "summarize" =>
            \A r \in Ids : IngestColumns(store'[r]) = IngestColumns(store[r])]_vars

\* C22 witness: an ingestion run has written an error sentinel on its error
\* path and the record's summarization columns are those of the inserted row
C22_Witness ==
  \E c \in Chains : \E r \in run[c].failed :
    /\ run[c].job = "ingest"
    /\ run[c].pc = "done"
    /\ StartsWithError(store[r].transcript)
    /\ SummaryColumns(store[r]) = SummaryColumns(NewRow)

\* C23 as stated: the status view reports a transcript as ok exactly when
\* the ingestion classifier treats it as real, highlights as missing exactly
\* when the summarization classifier needs highlights, sources as missing
\* exactly when it needs sources, and it writes nothing to the store.
C23_Original ==
  (call.fn = "debugEpisode" /\ call.done) =>
    LET r == call.args[1] IN
    /\ call.result.transcript.status = "ok" <=> isRealTranscript(r.transcript)
    /\ call.result.highlights = "missing" <=> missingHighlights(r.highlights)
    /\ call.result.sources.status = "missing" <=> isEmptySources(r.sources)
    /\ store = [x \in Ids |-> NoRecord]

\* the parts of C23 that hold: highlights and sources are classified as the
\* summarization job classifies them, a transcript the classifier treats as
\* real is reported ok, and nothing is written
C23_Holds ==
  (call.fn = "debugEpisode" /\ call.done) =>
    LET r == call.args[1] IN
    /\ isRealTranscript(r.transcript) => call.result.transcript.status = "ok"
    /\ call.result.highlights = "missing" <=> missingHighlights(r.highlights)
    /\ call.result.sources.status = "missing" <=> isEmptySources(r.sources)
    /\ store = [x \in Ids |-> NoRecord]

\* the records a step writes
Written == {r \in Ids : store'[r] # store[r]}

\* C24: in one invocation of either job the batch loop reaches at most
\* EPISODES_PER_RUN records: only they get an external call, and a store
\* write of the batch loop changes no other record, however many candidates
\* the window holds.
C24_BatchCap ==
  [][\A c \in Chains : (run'[c] # run[c] /\ run[c].pc \in BatchPcs) =>
       /\ Written \subseteq run'[c].visited
       /\ run'[c].attempted \subseteq run'[c].visited
       /\ run'[c].visited \subseteq BatchIds(c)
       /\ Cardinality(run'[c].visited) <= EPISODES_PER_RUN]_vars

\* C24 witness: a run that found more candidates than the cap returned
\* after working on exactly EPISODES_PER_RUN of them
C24_Witness ==
  \E c \in Chains :
    /\ run[c].pc = "done"
    /\ run[c].total > EPISODES_PER_RUN
    /\ Cardinality(run[c].attempted) = EPISODES_PER_RUN

\* ids of the batch items the loop has reached
Reached(c) ==
  LET n == IF run[c].pc = "loop" THEN run[c].i - 1
           ELSE Min(run[c].i, Len(run[c].batch))
  IN {run[c].batch[k].id : k \in 1..n}

\* C25: ids are ranks of published_at.  The batch of a run is the newest
\* candidates of the window: every candidate the run leaves out is older
\* than every candidate of the batch, and the loop takes the batch newest
\* first.
C25_Ordering ==
  \A c \in Chains : run[c].pc \in BatchPcs \cup {"chain", "done"} =>
    /\ BatchIds(c) \subseteq run[c].candIds
    /\ \A r \in BatchIds(c) : \A q \in run[c].candIds \ BatchIds(c) : q < r
    /\ \A k \in 1..(Len(run[c].batch) - 1) :
         run[c].batch[k].id > run[c].batch[k + 1].id
    /\ run[c].visited = Reached(c)

\* C25 witness: a run with more candidates than the cap has worked on the
\* newest of them and is working on the second newest
C25_Witness ==
  \E c \in Chains :
    /\ run[c].pc \in {"transcribe", "retrieve", "generate"}
    /\ run[c].total > EPISODES_PER_RUN
    /\ run[c].i = 2
    /\ Cardinality(run[c].visited) = 2

\* segments needed for the whole audio, and the number the cap allows
SegmentsOf(bytes) == Min(CeilDiv(bytes, CHUNK_SIZE), CHUNK_CAP)

\* C26: transcribing one episode sends min(ceil(audioBytes / segmentSize),
\* 30) transcription requests, one per loop iteration; when the cap is hit
\* the loop stops and the text of the first 30 segments is returned, not
\* thrown, so the run stores it as the transcript and no error sentinel.
C26_SegmentCeiling ==
  call.fn = "transcribeInChunks" =>
    /\ call.result.calls <= SegmentsOf(call.args[1])
    /\ ~call.result.thrown =>
         /\ call.result.calls = call.result.part - 1
         /\ call.result.segments = call.result.calls
    /\ (call.done /\ ~call.result.thrown) =>
         call.result.calls = SegmentsOf(call.args[1])

\* C26 witness: an audio of more than 30 segments was transcribed: the call
\* returned after 30 requests
C26_Witness ==
  /\ call.fn = "transcribeInChunks"
  /\ call.done
  /\ ~call.result.thrown
  /\ CeilDiv(call.args[1], CHUNK_SIZE) > CHUNK_CAP
  /\ call.result.segments = CHUNK_CAP

\* C27 as stated, for the search calls: with the search key unset every
\* search call of a run throws; each candidate whose retrieval made them
\* has the failure recorded in its error field.
C27_Original ==
  \A c \in Chains : \A k \in 1..Len(run[c].batch) :
    (/\ run[c].job = "summarize"
     /\ ~env.tavily
     /\ run[c].pc \in {"chain", "done"}
     /\ isEmptySources(run[c].batch[k].rec.sources))
    => run[c].batch[k].id \in run[c].failed

\* the part of C27 that holds: the write of the catch block changes the
\* failing candidate only, and sets its error field
C27_Holds ==
  [][\A c \in Chains : (run'[c] # run[c] /\ run[c].pc = "saveError") =>
       /\ Written \subseteq {CurRow(c).id}
       /\ CurRow(c).id \in run[c].failed
       /\ \A r \in Written :
            IF run[c].job = "ingest" THEN StartsWithError(store'[r].transcript)
            ELSE store'[r].highlights_error # NoError]_vars

\* C28: an ingestion run gets past the feed step only with a feed that was
\* read and gave a valid row that was upserted; otherwise the invocation
\* ends with status 500 having marked no record, transcribed nothing and
\* sent no continuation request.
C28_FeedFatal ==
  \A c \in Chains : run[c].job = "ingest" =>
    /\ run[c].pc \in BatchPcs \cup {"fetch", "chain", "done"} => run[c].feedOk
    /\ run[c].pc = "failed" =>
         /\ run[c].status = 500
         /\ run[c].visited = {}
         /\ run[c].attempted = {}
         /\ ~run[c].chainTriggered
         /\ \A m \in msgs : m.chain # c

\* C28 witness: with the credentials present, an ingestion run ended at the
\* feed step
C28_Witness ==
  \E c \in Chains :
    /\ run[c].job = "ingest"
    /\ env.supabase /\ env.openai
    /\ run[c].pc = "failed"
    /\ ~run[c].feedOk

\* C29: every value written to highlights_error is at most 800 characters
\* long, and every error sentinel written to a transcript is the prefix
\* followed by at most 500 characters of the message: it starts with the
\* prefix and is not a real transcript.
C29_BoundedErrors ==
  [][\A r \in Ids :
       /\ (store'[r].highlights_error # store[r].highlights_error
            /\ store'[r].highlights_error # NoError)
           => store'[r].highlights_error <= SUM_ERROR_SLICE
       /\ (store'[r].transcript # store[r].transcript
            /\ StartsWithError(store'[r].transcript))
           => /\ store'[r].transcript.len <= ERROR_PREFIX_LENGTH + INGEST_ERROR_SLICE
              /\ store'[r].transcript.len >= ERROR_PREFIX_LENGTH
              /\ ~isRealTranscript(store'[r].transcript)]_vars

\* C29 witness: a model call failed with a message longer than the slice
\* and the candidate's highlights_error holds its first 800 characters
C29_Witness ==
  \E c \in Chains : \E r \in run[c].failed :
    /\ run[c].job = "summarize"
    /\ LONG_MESSAGE > SUM_ERROR_SLICE
    /\ store[r].highlights_error = SUM_ERROR_SLICE

\* C30: in the ingestion batch a record is transcribed only after the
\* write of the processing sentinel to it has succeeded: while the
\* transcription runs the record holds the sentinel.  A record whose mark
\* failed is skipped: it is never transcribed and keeps the transcript the
\* run read.
C30_MarkBeforeTranscribe ==
  \A c \in Chains : run[c].job = "ingest" =>
    /\ run[c].pc = "transcribe" =>
         /\ CurRow(c).id \in run[c].attempted
         /\ store[CurRow(c).id].transcript = PROCESSING
    /\ run[c].pc \in {"save", "saveError"} => CurRow(c).id \in run[c].attempted
    /\ run[c].attempted \subseteq run[c].visited
    /\ \A k \in 1..Len(run[c].batch) :
         run[c].batch[k].id \in run[c].visited \ run[c].attempted =>
           store[run[c].batch[k].id].transcript = run[c].batch[k].rec.transcript

\* C30 witness: the mark of the first record of the batch failed, the
\* record was skipped, and the second record is being transcribed
C30_Witness ==
  \E c \in Chains :
    /\ run[c].job = "ingest"
    /\ run[c].pc = "transcribe"
    /\ run[c].i = 2
    /\ run[c].batch[1].rec.audio
    /\ run[c].batch[1].id \notin run[c].attempted

\* C31: while a continuation request is in flight the run that sent it has
\* already returned status 200 with chain_triggered true, and when the
\* request is not delivered the run's response stays as it was.
C31_FireAndForget ==
  [][/\ \A m \in msgs' :
          /\ run'[m.chain].pc = "done"
          /\ run'[m.chain].status = 200
          /\ run'[m.chain].chainTriggered
     /\ \A m \in msgs \ msgs' :
          run'[m.chain].faults > run[m.chain].faults =>
            /\ run'[m.chain].pc = "done"
            /\ run'[m.chain].status = 200
            /\ run'[m.chain].chainTriggered
            /\ run'[m.chain].depth = m.depth - 1]_vars

\* C31 witness: a run fired a continuation, the request was lost, and the
\* run's response is status 200 with chain_triggered true
C31_Witness ==
  \E c \in Chains :
    /\ run[c].pc = "done"
    /\ run[c].status = 200
    /\ run[c].chainTriggered
    /\ run[c].faults > 0
    /\ \A m \in msgs : m.chain # c

\* C32: every sources value the summarization batch writes has at most
\* SOURCE_CAP entries, no url twice and no empty url.
C32_StoredSources ==
  [][\A r \in Ids : store'[r].sources # store[r].sources =>
       /\ SourcesWellFormed(store'[r])
       /\ \A k \in 1..Len(store'[r].sources.list) :
            store'[r].sources.list[k].url # 0]_vars

\* C32 witness: a search returned more distinct urls than the cap and a
\* repeated url, and the record of the candidate holds SOURCE_CAP sources
C32_Witness ==
  \E c \in Chains : \E r \in run[c].visited :
    /\ run[c].job = "summarize"
    /\ \E l \in SearchOutcomes :
         Cardinality(UrlsOf(l)) > SOURCE_CAP /\ Cardinality(UrlsOf(l)) < Len(l)
    /\ Len(store[r].sources.list) = SOURCE_CAP

C35_Original ==
  \A c \in Chains :
    (/\ run[c].job = "ingest-one"
     /\ run[c].batch # <<>>
     /\ run[c].pc \in {"oneCheck", "oneTranscribe", "oneSave", "done"}
     /\ hasRealTranscript(run[c].batch[1].rec.transcript))
    => /\ run[c].pc # "oneTranscribe"
       /\ run[c].attempted = {}
       /\ store[run[c].batch[1].id].transcript = run[c].batch[1].rec.transcript

\* C36: with one ingestion chain, a record whose transcript is real is not
\* among the candidates a run selects, and no step of a run changes its
\* transcript: not the reset at depth 0, not the processing mark, not an
\* error write.
C36_RealTranscriptKept ==
  [][\A c \in Chains : (run[c].job = "ingest" /\ run'[c] # run[c]) =>
       /\ \A r \in Ids : isRealTranscript(store[r].transcript) =>
            store'[r].transcript = store[r].transcript
       /\ run[c].pc = "fetch" =>
            \A r \in run'[c].candIds : ~isRealTranscript(store[r].transcript)]_vars

\* C36 witness: a continuation run of the chain is transcribing while a
\* record of its window that it did not select holds a real transcript
C36_Witness ==
  \E c \in Chains : \E r \in run[c].windowIds \ run[c].candIds :
    /\ run[c].job = "ingest"
    /\ run[c].depth > 0
    /\ run[c].pc = "transcribe"
    /\ isRealTranscript(store[r].transcript)

\* C37: when an ingestion invocation returns and no call of its chain
\* failed at the store, every record it marked with the processing sentinel
\* holds the transcribed text or an error sentinel, not the processing
\* sentinel.
C37_NotLeftProcessing ==
  \A c \in Chains :
    (run[c].job = "ingest" /\ run[c].pc \in {"done", "failed"} /\ run[c].faults = 0)
    => \A r \in run[c].attempted :
         /\ store[r].transcript # PROCESSING
         /\ store[r].transcript.kind \in {"text", "err"}
         /\ r \in run[c].failed <=> StartsWithError(store[r].transcript)

\* C37 witness: a run returned after the transcription of one record it
\* marked threw and that of another returned
C37_Witness ==
  \E c \in Chains : \E r, q \in run[c].attempted :
    /\ run[c].job = "ingest"
    /\ run[c].pc = "done"
    /\ run[c].faults = 0
    /\ StartsWithError(store[r].transcript)
    /\ store[q].transcript.kind = "text"

\* C38 as stated, for ingestion: a chain started at depth 0 with C
\* candidates, ceil(C/B) - 1 <= MAX_DEPTH, the site URL set, no failed
\* store call and no new feed item has ended; every candidate with an
\* audio locator has been attempted, so none is left with the absent
\* transcript it started with.
C38_Original ==
  \A c \in Chains :
    (/\ run[c].job = "ingest"
     /\ ChainEnded(c)
     /\ run[c].pc = "done"
     /\ run[c].faults = 0
     /\ ~run[c].grew
     /\ run[c].c0 >= 0
     /\ env.base
     /\ Continuations(run[c].c0) <= MaxDepth(run[c].job))
    => \A r \in run[c].windowIds :
         store[r].audio => store[r].transcript # NullTranscript

\* C39 as stated: an absent depth parameter is depth 0, and no request,
\* whatever its depth parameter, starts a chain of more than MAX_DEPTH
\* continuations.
C39_Original ==
  (call.fn = "chain" /\ call.result.parsed) =>
    /\ ~call.args[1].given => (call.done \/ call.result.depth.n = call.result.fired)
    /\ call.result.fired <= MaxDepth(call.args[2])

\* the part of C39 that holds: requests whose depth parameter is absent,
\* not a number or not negative start at most MAX_DEPTH continuations
C39_Holds ==
  (call.fn = "chain" /\ call.result.parsed
   /\ (call.args[1].numeric => call.args[1].n >= 0)) =>
    call.result.fired <= MaxDepth(call.args[2])

\* C40: the excerpt sent to the model is the whole transcript when its
\* length is at most 18000, its first 18000 characters when the length is
\* 18001 to 22000, and its first 18000 characters, the separator and its
\* last 4000 characters when it is longer; it is never longer than
\* 18000 + separator + 4000 characters.
C40_PromptBound ==
  (call.fn = "transcriptForModel" /\ call.done) =>
    LET len == call.args[1]
        x == call.result
    IN /\ len <= HEAD_LENGTH =>
            (x.head = len /\ x.tail = 0 /\ x.length = len)
       /\ (len > HEAD_LENGTH /\ len <= TAIL_THRESHOLD) =>
            (x.head = HEAD_LENGTH /\ x.tail = 0 /\ x.length = HEAD_LENGTH)
       /\ len > TAIL_THRESHOLD =>
            /\ x.head = HEAD_LENGTH
            /\ x.tail = TAIL_LENGTH
            /\ x.length = HEAD_LENGTH + SEPARATOR_LENGTH + TAIL_LENGTH
       /\ x.length <= HEAD_LENGTH + SEPARATOR_LENGTH + TAIL_LENGTH

\* C40 witness: excerpts were made of a transcript between the two
\* thresholds and of a longer one
C40_Witness ==
  /\ call.fn = "transcriptForModel"
  /\ call.done
  /\ call.args[1] = TAIL_THRESHOLD + 1
  /\ call.result.tail = TAIL_LENGTH
====
